---- MODULE Spec2Model ----
(***************************************************************************)
(* OpenAgentTrace: the queued tracer (backend/tracer.py), the local-storage *)
(* tracer (agent_tracer.py) and the collector (backend/main.py).            *)
(*                                                                          *)
(* Python values are modelled as follows.  An Optional value is a sequence: *)
(* None is << >> and a present value x is <<x>>.  A dict is a function whose *)
(* DOMAIN is its key set, so an absent key is really absent.  uuid4() draws *)
(* the next unused string of UuidPool; time.time() reads a logical clock    *)
(* that advances at every reading.                                          *)
(***************************************************************************)
EXTENDS Integers, Sequences, FiniteSets, TLC

\* ---------------------------------------------------------------- bounds
NumTasks == 2
MaxUuids == 5
MaxDepth == 2
NumHandlers == 2
MaxRequests == 3

\* ---------------------------------------------------------- python values
None == << >>
Some(x) == <<x>>

\* bool(x) of an Optional[str]: None and "" are falsy.
TruthyStr(o) == o # None /\ o[1] # ""

HasKey(d, k) == k \in DOMAIN d
SetKey(d, k, v) == [x \in DOMAIN d \cup {k} |-> IF x = k THEN v ELSE d[x]]

Last(s) == s[Len(s)]
Front(s) == SubSeq(s, 1, Len(s) - 1)

\* ------------------------------------------------------------ environment
Tasks == 1..NumTasks
\* The threads of the collector's pool that run the endpoint functions.
Handlers == 1..NumHandlers
NumIoThreads == 2
IoThreads == 1..NumIoThreads
Idle == [pc |-> "idle"]

\* str(uuid.uuid4()): the n-th identifier minted by the process.
UuidPool == << "u1", "u2", "u3", "u4", "u5", "u6", "u7", "u8", "u9", "u10",
               "u11", "u12", "u13", "u14", "u15", "u16" >>
uuid4(n) == UuidPool[n + 1]

\* The consumer threads of the queue: the worker that tracer.py starts when it
\* is imported, and the verbose_worker that diagnose.py starts next to it.
Workers == {"worker", "verbose_worker"}

Names == {"f"}
Modes == {"sync", "async"}
Results == {None, Some("ok")}
Raisables == { [cls |-> "Exception", msg |-> "boom"],
               [cls |-> "BaseException", msg |-> "cancelled"] }

\* How a wrapped unit ends: it returns a value or raises.
UnitOutcomes == { [kind |-> "return", val |-> v] : v \in Results }
                  \cup { [kind |-> "raise", exc |-> e] : e \in Raisables }
NoOutcome == [kind |-> "none"]

VARIABLES
    ctx_trace_id,   \* task -> Optional[str]     (ContextVar "trace_id")
    ctx_span_id,    \* task -> Optional[str]     (ContextVar "span_id")
    span_queue,     \* the records put on queue.Queue, oldest first
    stack,          \* task -> the instrumented calls in progress, outermost first
    minted,         \* number of uuid4() calls so far
    clock,          \* time.time()
    observed,       \* task -> what the caller of the last finished wrapper saw
    owner,          \* history: the pairs <<span_id, task>> of the calls made
    blobs,          \* agent_tracer: the files of .agent_tracer/blobs, hash -> text
    local_spans,    \* agent_tracer: the rows of the local spans table
    db_spans,       \* collector: the rows of the spans table (SQLite)
    metrics,        \* collector: the rows of the metrics table (DuckDB), in insertion order
    blob_dir,       \* collector: the files of blobs/, as [hash, text]
    inflight,       \* collector: handler thread -> the request it is serving
    http_log,       \* history: the requests served, with their responses
    blob_calls,     \* history: the direct calls of save and load on the blob stores
    blob_io,        \* thread -> the save_blob call it is in the middle of
    taken,          \* the indexes of span_queue that queue.get() has returned
    workers,        \* consumer thread -> where it stands and the payload it holds
    sent,           \* history: what the consumers did with each payload
    joined,         \* history: task -> its last join_trace call
    heap,           \* the span dicts as objects: object id -> its keys and values
    obj_queue,      \* the queue as references: [obj, at] per put, oldest first
    transmitted     \* history: the payloads as they were when the worker posted them

vars == << ctx_trace_id, ctx_span_id, span_queue, stack, minted, clock,
           observed, owner, blobs, local_spans, db_spans, metrics, blob_dir,
           inflight, http_log, blob_calls, blob_io, taken, workers, sent, joined,
           heap, obj_queue, transmitted >>
localVars == << blobs, local_spans, blob_calls, blob_io >>
tracerVars == << ctx_trace_id, ctx_span_id, span_queue, stack, minted, clock,
                 observed, owner, joined >>
objectVars == << heap, obj_queue, transmitted >>
deliveryVars == << taken, workers, sent, objectVars >>
collectorVars == << db_spans, metrics, blob_dir, inflight, http_log >>

\* ------------------------------------------------------------ ContextVar
\* ContextVar.get() in task t.
CtxGet(var, t) == var[t]
\* ContextVar.set(v) in task t; the token is the value replaced.
CtxSetShared(var, t, v) == [u \in DOMAIN var |-> v]
CtxSet(var, t, v) == [var EXCEPT ![t] = v]
\* ContextVar.reset(token) in task t.
CtxResetKeep(var, t, token) == var
CtxReset(var, t, token) == [var EXCEPT ![t] = token]

\* span_queue = queue.Queue(): maxsize 0, and put() waits only while
\* maxsize > 0 and the queue holds maxsize items.
maxsize == 0
FullAtTwo(q) == Len(q) >= 2
Full(q) == maxsize > 0 /\ Len(q) >= maxsize
\* queue.Queue.put, once it need not wait.
Put(q, item) == Append(q, item)

\* ------------------------------------------------- backend/tracer.py: enter
\* Lines 44-47 (sync) and 92-93 (async): the active trace id, or a new one.
\* The result is <<trace_id, number of uuids drawn>>.
ResolveTraceSync(cur, n) ==
    IF ~TruthyStr(cur) THEN << uuid4(n), 1 >> ELSE << cur[1], 0 >>
ResolveTraceAsyncFresh(cur, n) == << uuid4(n), 1 >>
ResolveTraceAsync(cur, n) ==
    IF TruthyStr(cur) THEN << cur[1], 0 >> ELSE << uuid4(n), 1 >>
ResolveTraceAlwaysNew(mode, cur, n) == << uuid4(n), 1 >>
ResolveTrace(mode, cur, n) ==
    IF mode = "sync" THEN ResolveTraceSync(cur, n) ELSE ResolveTraceAsync(cur, n)

\* The span dict of lines 53-57 and 98-102.
NewSpan(span_id, trace_id, parent_id, name, now) ==
    [ span_id |-> span_id, trace_id |-> trace_id, parent_span_id |-> parent_id,
      name |-> name, type |-> "function", start_time |-> now,
      status |-> "RUNNING", inputs |-> "args", meta |-> << >> ]

\* span.copy(): a new dict with the same keys and values.
DictCopy(d) == [k \in DOMAIN d |-> d[k]]

\* Lines 43-59 / 92-103: everything the wrapper does before calling the unit.
Enter(t, mode, name) ==
    /\ minted + ResolveTrace(mode, CtxGet(ctx_trace_id, t), minted)[2] + 1 <= MaxUuids
    /\ Len(stack[t]) < MaxDepth
    /\ ~Full(span_queue)
    /\ LET res == ResolveTrace(mode, CtxGet(ctx_trace_id, t), minted)
           trace_id == res[1]
           parent_id == CtxGet(ctx_span_id, t)
           span_id == uuid4(minted + res[2])
           token == CtxGet(ctx_span_id, t)
           span == NewSpan(span_id, trace_id, parent_id, name, clock)
       IN /\ ctx_trace_id' = CtxSet(ctx_trace_id, t, Some(trace_id))
          /\ ctx_span_id' = CtxSet(ctx_span_id, t, Some(span_id))
          /\ span_queue' = Put(span_queue, DictCopy(span))
          /\ stack' = [stack EXCEPT ![t] =
                          Append(@, [span |-> span, token |-> token])]
          /\ minted' = minted + res[2] + 1
          /\ clock' = clock + 1
          /\ owner' = owner \cup { << span_id, t >> }
    /\ UNCHANGED << observed, joined, localVars, collectorVars, deliveryVars >>

\* ------------------------------------------------ backend/tracer.py: finish
\* Lines 61-73 / 105-113: the try block and its "except Exception" handler.
\* An error that is not an Exception (asyncio.CancelledError, KeyboardInterrupt)
\* passes the handler by.
RecordOutcomeAlwaysSuccess(span, out) ==
    SetKey(SetKey(span, "outputs", None), "status", "SUCCESS")
RecordOutcome(span, out) ==
    IF out.kind = "return"
    THEN SetKey(SetKey(span, "outputs", out.val), "status", "SUCCESS")
    ELSE IF out.exc.cls = "Exception"
         THEN SetKey(SetKey(span, "error_message", out.exc.msg), "status", "FAILURE")
         ELSE span

\* Lines 75-76 / 115-116.
Finalize(span, now) ==
    SetKey(SetKey(span, "end_time", now), "duration", now - span.start_time)

\* Line 77 / 117: the put of the finally block, on every way out.
EmitEndOnReturn(q, span, out) == IF out.kind = "return" THEN Put(q, span) ELSE q
EmitEnd(q, span, out) == Put(q, span)

\* What the wrapper hands to its caller: "return result" (69 / 109), "raise e"
\* (73 / 113), or the error the handler did not catch.
WrapperOutcomeSwallow(out) ==
    IF out.kind = "raise" THEN [kind |-> "return", val |-> None] ELSE out
WrapperOutcome(out) == out

\* Lines 61-78 / 105-118: the unit of the innermost call of task t ends with out.
Finish(t, out) ==
    /\ stack[t] # << >>
    /\ ~Full(span_queue)
    /\ LET frame == Last(stack[t])
           span == Finalize(RecordOutcome(frame.span, out), clock)
       IN /\ span_queue' = EmitEnd(span_queue, span, out)
          /\ ctx_span_id' = CtxReset(ctx_span_id, t, frame.token)
          /\ stack' = [stack EXCEPT ![t] = Front(@)]
          /\ observed' = [observed EXCEPT ![t] =
                             [ span_id |-> frame.span.span_id, unit |-> out,
                               seen |-> WrapperOutcome(out),
                               before |-> frame.span.parent_span_id,
                               after |-> CtxGet(ctx_span_id', t) ]]
          /\ clock' = clock + 1
    /\ UNCHANGED << ctx_trace_id, minted, owner, joined, localVars, collectorVars,
                    deliveryVars >>

\* ------------------------------------------------------- the queued tracer
Init ==
    /\ ctx_trace_id = [t \in Tasks |-> None]
    /\ ctx_span_id = [t \in Tasks |-> None]
    /\ span_queue = << >>
    /\ stack = [t \in Tasks |-> << >>]
    /\ minted = 0
    /\ clock = 1
    /\ observed = [t \in Tasks |-> NoOutcome]
    /\ owner = {}
    /\ blobs = << >>
    /\ local_spans = << >>
    /\ db_spans = {}
    /\ metrics = << >>
    /\ blob_dir = {}
    /\ inflight = [h \in Handlers |-> Idle]
    /\ http_log = << >>
    /\ blob_calls = << >>
    /\ blob_io = [t \in IoThreads |-> Idle]
    /\ taken = {}
    /\ workers = [w \in Workers |-> IF w = "worker" THEN [pc |-> "get"]
                                    ELSE [pc |-> "not_started"]]
    /\ sent = << >>
    /\ joined = [t \in Tasks |-> None]
    /\ heap = << >>
    /\ obj_queue = << >>
    /\ transmitted = << >>

Next ==
    \/ \E t \in Tasks, mode \in Modes, name \in Names : Enter(t, mode, name)
    \/ \E t \in Tasks, out \in UnitOutcomes : Finish(t, out)

Spec == Init /\ [][Next]_vars

\* ---------------------------------------------------------- agent_tracer.py
\* The values a unit takes and returns, by how they serialize: json.dumps
\* succeeds ("json"), json.dumps raises and str() succeeds ("str"), or both
\* raise ("none": an object whose __str__ and __repr__ raise).
LocalValues == { [ser |-> "json", body |-> "a"],
                 [ser |-> "str", body |-> "b"],
                 [ser |-> "none", body |-> "c"] }
ErrorEnvelope(msg) == [ser |-> "json", body |-> msg]
LocalOutcomes == { [kind |-> "return", val |-> v] : v \in LocalValues }
                   \cup { [kind |-> "raise", exc |-> e] : e \in Raisables }
\* The error save_blob lets through: a TypeError, ValueError or OSError.
SaveError == [cls |-> "Exception", msg |-> "save_blob"]

\* A dict is the sequence of its <<key, value>> items in insertion order; two
\* dicts are equal when they have the same items in any order.  KeyRank is the
\* order sorted() gives the keys.
KeyRank(k) == CASE k = "a" -> 1 [] k = "b" -> 2 [] k = "c" -> 3
Items(d) == { d[i] : i \in DOMAIN d }
\* The items as json.dumps(sort_keys=True) writes them.
SortKeys(d) ==
    [ i \in DOMAIN d |->
        CHOOSE it \in Items(d) :
            Cardinality({ x \in Items(d) : KeyRank(x[1]) < KeyRank(it[1]) }) = i - 1 ]

\* StorageEngine.save_blob, lines 58-62: the text, or None when str() raises
\* too.  ser "dict" is a dict that json.dumps encodes: its body is the items.
LocalSerializeUnsorted(data) ==
    IF data.ser = "dict" THEN Some([fmt |-> "json", of |-> data.body])
    ELSE IF data.ser = "json" THEN Some([fmt |-> "json", of |-> data.body])
    ELSE IF data.ser = "str" THEN Some([fmt |-> "str", of |-> data.body])
    ELSE None
LocalSerialize(data) ==
    IF data.ser = "dict" THEN Some([fmt |-> "json", of |-> SortKeys(data.body)])
    ELSE IF data.ser = "json" THEN Some([fmt |-> "json", of |-> data.body])
    ELSE IF data.ser = "str" THEN Some([fmt |-> "str", of |-> data.body])
    ELSE None
\* hashlib.sha256(text).hexdigest(): one digest per text.
Sha256(text) == [digest |-> text]
BlobExists(store, h) == \E i \in DOMAIN store : store[i].hash = h

\* StorageEngine.save_blob, lines 56-71: the hash returned, or a raise, and
\* the blob directory afterwards.
LocalSaveBlob(store, data) ==
    LET text == LocalSerialize(data)
    IN IF text = None THEN [raised |-> TRUE, store |-> store]
       ELSE LET h == Sha256(text[1])
            IN IF BlobExists(store, h)
               THEN [raised |-> FALSE, hash |-> h, store |-> store]
               ELSE [raised |-> FALSE, hash |-> h,
                     store |-> Append(store, [hash |-> h, text |-> text[1]])]

\* get_current_trace_id, lines 103-108.
GetCurrentTraceId(cur, n) ==
    IF ~TruthyStr(cur) THEN << uuid4(n), 1 >> ELSE << cur[1], 0 >>

\* _prepare_span, lines 213-224.
NewSpanData(span_id, trace_id, parent_id, name, now) ==
    [ span_id |-> span_id, trace_id |-> trace_id, parent_span_id |-> parent_id,
      name |-> name, type |-> "function", start_time |-> now,
      input_hash |-> None, output_hash |-> None, status |-> "RUNNING",
      error_message |-> None ]

\* trace.wrapper, lines 229-231 / 236-238: _prepare_span, then the input blob.
\* When save_blob raises, the error leaves the wrapper at once: the unit is
\* not called and nothing resets the context.
LocalEnter(t, name, args) ==
    /\ minted + GetCurrentTraceId(CtxGet(ctx_trace_id, t), minted)[2] + 1 <= MaxUuids
    /\ Len(stack[t]) < MaxDepth
    /\ LET res == GetCurrentTraceId(CtxGet(ctx_trace_id, t), minted)
           trace_id == res[1]
           parent_id == CtxGet(ctx_span_id, t)
           span_id == uuid4(minted + res[2])
           token == CtxGet(ctx_span_id, t)
           span_data == NewSpanData(span_id, trace_id, parent_id, name, clock)
           saved == LocalSaveBlob(blobs, args)
       IN /\ ctx_trace_id' = CtxSet(ctx_trace_id, t, Some(trace_id))
          /\ ctx_span_id' = CtxSet(ctx_span_id, t, Some(span_id))
          /\ minted' = minted + res[2] + 1
          /\ clock' = clock + 1
          /\ owner' = owner \cup { << span_id, t >> }
          /\ blobs' = saved.store
          /\ IF saved.raised
             THEN /\ observed' = [observed EXCEPT ![t] =
                                     [ span_id |-> span_id,
                                       unit |-> [kind |-> "not_called"],
                                       seen |-> [kind |-> "raise", exc |-> SaveError],
                                       before |-> parent_id,
                                       after |-> CtxGet(ctx_span_id', t) ]]
                  /\ UNCHANGED stack
             ELSE /\ stack' = [stack EXCEPT ![t] = Append(@,
                                  [ span |-> SetKey(span_data, "input_hash", Some(saved.hash)),
                                    token |-> token ])]
                  /\ UNCHANGED observed
    /\ UNCHANGED << span_queue, local_spans, blob_calls, blob_io, joined, collectorVars,
                    deliveryVars >>

\* _execute_sync / _execute_async, lines 170-179 / 184-193: the try block and
\* its handler.  The result: the span_data, the blob directory and what leaves
\* the function.
LocalExecute(span_data, store, out) ==
    LET handler(sd, st, e) ==
            LET sd1 == SetKey(SetKey(sd, "error_message", Some(e.msg)),
                              "status", "FAILURE")
                env == LocalSaveBlob(st, ErrorEnvelope(e.msg))
            IN IF env.raised
               THEN [ span |-> sd1, store |-> env.store,
                      seen |-> [kind |-> "raise", exc |-> SaveError] ]
               ELSE [ span |-> SetKey(sd1, "output_hash", Some(env.hash)),
                      store |-> env.store, seen |-> [kind |-> "raise", exc |-> e] ]
    IN IF out.kind = "return"
       THEN LET saved == LocalSaveBlob(store, out.val)
            IN IF saved.raised
               THEN handler(span_data, saved.store, SaveError)
               ELSE [ span |-> SetKey(SetKey(span_data, "output_hash", Some(saved.hash)),
                                      "status", "SUCCESS"),
                      store |-> saved.store, seen |-> out ]
       ELSE IF out.exc.cls = "Exception"
            THEN handler(span_data, store, out.exc)
            ELSE [ span |-> span_data, store |-> store, seen |-> out ]

\* _finalize_span, lines 198-199.
LocalFinalize(span_data, now) ==
    SetKey(SetKey(span_data, "end_time", now), "duration", now - span_data.start_time)

\* StorageEngine.save_span, lines 73-98: one INSERT.
SaveSpan(rows, span_data) == Append(rows, span_data)

\* _execute_sync / _execute_async with their finally block (_finalize_span,
\* lines 197-201): the unit of the innermost call of task t ends with out.
LocalFinish(t, out) ==
    /\ stack[t] # << >>
    /\ LET frame == Last(stack[t])
           done == LocalExecute(frame.span, blobs, out)
       IN /\ blobs' = done.store
          /\ local_spans' = SaveSpan(local_spans, LocalFinalize(done.span, clock))
          /\ ctx_span_id' = CtxReset(ctx_span_id, t, frame.token)
          /\ stack' = [stack EXCEPT ![t] = Front(@)]
          /\ observed' = [observed EXCEPT ![t] =
                             [ span_id |-> frame.span.span_id, unit |-> out,
                               seen |-> done.seen,
                               before |-> frame.span.parent_span_id,
                               after |-> CtxGet(ctx_span_id', t) ]]
          /\ clock' = clock + 1
    /\ UNCHANGED << ctx_trace_id, minted, owner, span_queue, blob_calls, blob_io, joined,
                    collectorVars, deliveryVars >>

NextLocal ==
    \/ \E t \in Tasks, name \in Names, args \in LocalValues : LocalEnter(t, name, args)
    \/ \E t \in Tasks, out \in LocalOutcomes : LocalFinish(t, out)

SpecLocal == Init /\ [][NextLocal]_vars

\* ------------------------------------------------ properties of the tracer
QueueIndexes == DOMAIN span_queue
RecordsOf(s) == { i \in QueueIndexes : span_queue[i].span_id = s }
BeaconsOf(s) == { i \in RecordsOf(s) : /\ span_queue[i].status = "RUNNING"
                                       /\ ~HasKey(span_queue[i], "end_time") }
FinalsOf(s) == { i \in RecordsOf(s) : HasKey(span_queue[i], "end_time") }
ActiveIds == UNION { { stack[t][i].span.span_id : i \in DOMAIN stack[t] } : t \in Tasks }
CalledIds == { p[1] : p \in owner }
Finished(t) == observed[t] # NoOutcome

\* C1: every instrumented call, sync or async, returning or raising, has put
\* exactly one record with status RUNNING and no end_time on the queue, and,
\* once it has finished, exactly one record with end_time set; both carry the
\* call's span_id and the call puts no other record.
C1_TwoRecordsPerCall ==
    LET called == CalledIds
        active == ActiveIds
    IN \A s \in called \cup { span_queue[i].span_id : i \in QueueIndexes } :
        LET B == BeaconsOf(s)
            F == FinalsOf(s)
        IN /\ s \in called
           /\ Cardinality(B) = 1
           /\ Cardinality(F) = IF s \in active THEN 0 ELSE 1
           /\ RecordsOf(s) = B \cup F
           /\ \A i \in B, j \in F : i < j

C1_Witness ==
    \E t \in Tasks :
        /\ Finished(t)
        /\ observed[t].unit.kind = "raise"
        /\ Cardinality(RecordsOf(observed[t].span_id)) = 2

\* C2: a span recorded by one task never has as parent a span of a call made
\* by another task: its parent is null or a span of the same task.
C2_TaskIsolation ==
    \A i \in QueueIndexes :
        \A t \in Tasks :
            << span_queue[i].span_id, t >> \in owner =>
                \/ span_queue[i].parent_span_id = None
                \/ << span_queue[i].parent_span_id[1], t >> \in owner

\* Both tasks have calls in progress at once, and task 1 entered a nested
\* call after task 2 had installed its own span id.
C2_Witness ==
    /\ Len(stack[1]) = 2
    /\ Len(stack[2]) = 1
    /\ stack[1][2].span.start_time > stack[2][1].span.start_time
    /\ stack[1][2].span.parent_span_id = Some(stack[1][1].span.span_id)

\* C3: when an instrumented call has finished, by returning or by raising,
\* the task's active span id is the one it had before the call; at every depth
\* the active span id is that of the innermost call in progress, and each call
\* in progress was entered under the one below it.
C3_ContextRestored ==
    \A t \in Tasks :
        /\ Finished(t) => observed[t].after = observed[t].before
        /\ ctx_span_id[t] = IF stack[t] = << >> THEN None
                            ELSE Some(Last(stack[t]).span.span_id)
        /\ \A i \in DOMAIN stack[t] :
               stack[t][i].span.parent_span_id =
                   IF i = 1 THEN None ELSE Some(stack[t][i - 1].span.span_id)

C3_Witness ==
    \E t \in Tasks :
        /\ Finished(t)
        /\ observed[t].unit.kind = "raise"
        /\ observed[t].before # None
        /\ observed[t].after = observed[t].before
        /\ Len(stack[t]) = 1

\* The finalized record of span s.
FinalRecord(s) == span_queue[CHOOSE i \in FinalsOf(s) : TRUE]

\* C4: when the wrapped unit raises, the finalized record of the call has
\* status FAILURE and a non-null error_message, and the caller observes the
\* error the unit raised.
C4_ErrorRecordedAndReraised ==
    \A t \in Tasks :
        (Finished(t) /\ observed[t].unit.kind = "raise") =>
            /\ FinalsOf(observed[t].span_id) # {}
            /\ LET r == FinalRecord(observed[t].span_id)
               IN /\ r.status = "FAILURE"
                  /\ HasKey(r, "error_message")
            /\ observed[t].seen = observed[t].unit

\* C20: every record emitted with end_time set has status SUCCESS or FAILURE,
\* never RUNNING, however the wrapped unit terminated.
C20_FinalizedNeverRunning ==
    \A i \in DOMAIN span_queue :
        HasKey(span_queue[i], "end_time") => span_queue[i].status \in {"SUCCESS", "FAILURE"}

\* The RUNNING record of span s, and the times its call began and ended.
Beacon(s) == span_queue[CHOOSE i \in BeaconsOf(s) : TRUE]
StartOf(s) == Beacon(s).start_time
TaskOf(s) == CHOOSE t \in Tasks : << s, t >> \in owner
\* The spans of the same task that were active when the call of s began.
Enclosing(s) ==
    LET task == TaskOf(s)
        began == StartOf(s)
        active == ActiveIds
    IN { e \in CalledIds \ {s} :
           /\ << e, task >> \in owner
           /\ StartOf(e) < began
           /\ (e \in active \/ FinalRecord(e).end_time > began) }
Innermost(S) == CHOOSE e \in S : \A x \in S : StartOf(x) <= StartOf(e)

\* C6: a span recorded while another span is active in the same task has the
\* innermost active span as its parent and that span's trace_id; so two units
\* called one after the other by an instrumented outer unit both have the
\* outer span as parent, and the three spans share one trace_id.
C6_ParentIsEnclosingSpan ==
    \A s \in CalledIds :
        LET outer == Enclosing(s)
            parent == Innermost(outer)
            record == Beacon(s)
        IN outer # {} =>
               /\ record.parent_span_id = Some(parent)
               /\ record.trace_id = Beacon(parent).trace_id

\* outer called inner_a, which finished, and then inner_b.
C6_Witness ==
    \E o, a, b \in CalledIds :
        /\ a # b
        /\ Beacon(a).parent_span_id = Some(o)
        /\ Beacon(b).parent_span_id = Some(o)
        /\ FinalsOf(a) # {}
        /\ FinalRecord(a).end_time <= StartOf(b)
        /\ Beacon(a).trace_id = Beacon(o).trace_id
        /\ Beacon(b).trace_id = Beacon(o).trace_id

\* C5: what the caller of an instrumented call observes, the value returned
\* or the error raised, is what the wrapped unit did, whether or not capturing
\* the inputs and the result succeeds; a unit that returns never makes the
\* wrapper raise.
C5_Transparent ==
    \A t \in Tasks : Finished(t) => observed[t].seen = observed[t].unit

\* ----------------------------------------------------------- backend/main.py
\* bool(x) of an Optional[float]: None and 0.0 are falsy.
TruthyNum(o) == o # None /\ o[1] # 0
\* dict.get(k, default)
DictGet(d, k, default) == IF k \in DOMAIN d THEN d[k] ELSE default
EmptyDict == << >>

TraceIds == {"t1", "t2"}
SpanIds == {"s1", "s2"}
\* The records sent: span s1 under either trace id, span s2 under t1.
SpanTraces == { << "s1", "t1" >>, << "s1", "t2" >>, << "s2", "t1" >> }

\* The meta of a record: {}, token usage and cost, or a "usage" that is no dict.
Metas == { EmptyDict,
           [usage |-> [kind |-> "dict", total_tokens |-> 7], cost |-> 3],
           [usage |-> [kind |-> "int"]] }

\* class SpanIngest, lines 95-108: a validated request body.
SpanIngest(span_id, trace_id, status, end_time, duration, error_message,
           outputs, meta) ==
    [ span_id |-> span_id, trace_id |-> trace_id, parent_span_id |-> None,
      name |-> "f", type |-> "function", start_time |-> 1,
      end_time |-> end_time, duration |-> duration, status |-> status,
      error_message |-> error_message, inputs |-> Some("args"),
      outputs |-> outputs, meta |-> meta ]

\* The bodies posted to /ingest: the RUNNING record of a span, and finalized
\* records of it.
BeaconBody(s, t) == SpanIngest(s, t, "RUNNING", None, None, None, None, EmptyDict)
FinalBodies(s, t) ==
    { SpanIngest(s, t, "SUCCESS", Some(2), Some(1), None, Some("ok"), m)
        : m \in Metas \ {EmptyDict} }
    \cup { SpanIngest(s, t, "FAILURE", Some(2), Some(1), Some("boom"), None, EmptyDict) }
IngestBodies(P) ==
    UNION { {BeaconBody(p[1], p[2])} \cup FinalBodies(p[1], p[2]) : p \in P }

\* save_blob, lines 66-75: json.dumps of a parsed JSON value, its digest, and
\* the file written anew each time.
JsonDumps(v) == [fmt |-> "json", of |-> v]
\* json.load: the value of a text json.dumps wrote; a text str() wrote is not
\* JSON (a dict prints with single quotes) and json.load raises on it.
Parses(text) == text.fmt = "json"
JsonLoad(text) == text.of
save_blob(dir, data) ==
    IF data = None THEN [hash |-> None, dir |-> dir]
    ELSE LET text == JsonDumps(data[1])
             h == Sha256(text)
         IN [ hash |-> Some(h),
              dir |-> { b \in dir : b.hash # h } \cup { [hash |-> h, text |-> text] } ]

\* get_blob, lines 77-83.
get_blob(dir, blob_hash) ==
    IF blob_hash = None THEN None
    ELSE IF \E b \in dir : b.hash = blob_hash[1]
         THEN Some(JsonLoad((CHOOSE b \in dir : b.hash = blob_hash[1]).text))
         ELSE None

\* The json.load of line 82 raises: get_blob has no handler for it.
GetBlobRaises(dir, blob_hash) ==
    /\ blob_hash # None
    /\ \E b \in dir : b.hash = blob_hash[1] /\ ~Parses(b.text)

\* Line 118: query(SpanModel).filter(span_id == ...).first()
FindRow(rows, span_id) ==
    IF \E r \in rows : r.span_id = span_id
    THEN Some(CHOOSE r \in rows : r.span_id = span_id)
    ELSE None

\* Lines 120-134: the attribute values the handler gives its SpanModel object.
RowFrom(span, in_hash, out_hash) ==
    [ span_id |-> span.span_id, trace_id |-> span.trace_id,
      parent_span_id |-> span.parent_span_id, name |-> span.name,
      type |-> span.type, start_time |-> span.start_time,
      end_time |-> span.end_time, duration |-> span.duration,
      status |-> span.status, error_message |-> span.error_message,
      input_hash |-> in_hash, output_hash |-> out_hash,
      metadata_json |-> span.meta ]

\* Line 136, db.commit(): the flush of the session.  An object added to the
\* session is INSERTed, and the primary key refuses a second row (IntegrityError).
\* A loaded object is UPDATEd in the columns that differ from the loaded values;
\* no statement is sent when none differs, and the UPDATE of a row that is gone
\* raises StaleDataError.
CommitInsertOnly(rows, existing, row) ==
    IF \E r \in rows : r.span_id = row.span_id THEN [ok |-> TRUE, rows |-> rows]
    ELSE [ok |-> TRUE, rows |-> rows \cup {row}]
Commit(rows, existing, row) ==
    IF existing = None
    THEN IF \E r \in rows : r.span_id = row.span_id
         THEN [ok |-> FALSE, rows |-> rows]
         ELSE [ok |-> TRUE, rows |-> rows \cup {row}]
    ELSE IF existing[1] = row THEN [ok |-> TRUE, rows |-> rows]
    ELSE IF ~\E r \in rows : r.span_id = row.span_id
         THEN [ok |-> FALSE, rows |-> rows]
         ELSE LET cur == CHOOSE r \in rows : r.span_id = row.span_id
                  new == [f \in DOMAIN row |->
                             IF row[f] # existing[1][f] THEN row[f] ELSE cur[f]]
              IN [ok |-> TRUE, rows |-> (rows \ {cur}) \cup {new}]

\* Lines 140-155: the metrics row of a record whose end_time is truthy.  The
\* chained .get raises AttributeError when meta["usage"] is not a dict.
MetricRow(span, tokens, cost) ==
    [ time |-> span.start_time * 1000, trace_id |-> span.trace_id,
      span_id |-> span.span_id, name |-> span.name, type |-> span.type,
      status |-> span.status,
      duration |-> IF TruthyNum(span.duration) THEN span.duration[1] ELSE 0,
      cost |-> cost, tokens_total |-> tokens ]
InsertMetric(mets, span) ==
    IF ~TruthyNum(span.end_time) THEN [ok |-> TRUE, metrics |-> mets]
    ELSE LET usage == DictGet(span.meta, "usage", [kind |-> "dict"])
         IN IF usage.kind # "dict" THEN [ok |-> FALSE, metrics |-> mets]
            ELSE [ ok |-> TRUE,
                   metrics |-> Append(mets,
                       MetricRow(span, DictGet(usage, "total_tokens", 0),
                                 DictGet(span.meta, "cost", 0))) ]

\* Line 258 and line 264: the two DELETE statements of delete_trace.
DeleteSpans(rows, trace_id) == { r \in rows : r.trace_id # trace_id }
DeleteMetricsNone(mets, trace_id) == mets
DeleteMetrics(mets, trace_id) == SelectSeq(mets, LAMBDA m : m.trace_id # trace_id)

\* get_trace_details, lines 178-196: the spans of a trace, each with its
\* inputs and outputs read back from the blob files.
get_trace_details(W, trace_id) ==
    { [ span_id |-> r.span_id, parent_span_id |-> r.parent_span_id,
        name |-> r.name, type |-> r.type, status |-> r.status,
        duration |-> r.duration, meta |-> r.metadata_json,
        inputs |-> get_blob(W.blobs, r.input_hash),
        outputs |-> get_blob(W.blobs, r.output_hash) ]
      : r \in { x \in W.spans : x.trace_id = trace_id } }

\* get_analytics, lines 198-252.  The query parameters are Optional[str]; a
\* timestamp string is compared with the time column as the timestamp it
\* denotes, here in milliseconds since the epoch like the time column itself.
Timestamps == { "1970-01-01 00:00:01", "1970-01-01 00:00:02" }
ParseTimestamp(text) ==
    CASE text = "1970-01-01 00:00:01" -> 1000
      [] text = "1970-01-01 00:00:02" -> 2000
\* Lines 202-211: "1=1", " AND time >= ?" if start, " AND time <= ?" if end.
TimeFilter(mets, start, end) ==
    SelectSeq(mets, LAMBDA m :
        /\ TruthyStr(start) => m.time >= ParseTimestamp(start[1])
        /\ TruthyStr(end) => m.time <= ParseTimestamp(end[1]))
\* Lines 214-219: COUNT(CASE WHEN status = 'FAILURE' ...) * 100.0 /
\* NULLIF(COUNT(*), 0), as the pair <<numerator, denominator>>; NULL (None)
\* when no row is selected.
ErrRateCountsSuccess(rows) ==
    IF Len(rows) = 0 THEN None
    ELSE Some(<< 100 * Len(SelectSeq(rows, LAMBDA m : m.status = "SUCCESS")), Len(rows) >>)
ErrQuery(rows) ==
    IF Len(rows) = 0 THEN None
    ELSE Some(<< 100 * Len(SelectSeq(rows, LAMBDA m : m.status = "FAILURE")), Len(rows) >>)
\* round(n / d, 2), in hundredths: the nearest hundredth, and of two equally
\* near ones the even one.
Round2(n, d) ==
    LET q == (100 * n) \div d
        r == (100 * n) % d
    IN IF 2 * r < d THEN q
       ELSE IF 2 * r > d THEN q + 1
       ELSE IF q % 2 = 0 THEN q ELSE q + 1
\* Lines 220 and 248-249: the "error_rate" of the response, in hundredths of
\* a percent.  The latency and daily-trend aggregates of the response are
\* read-only and are left out.
get_analytics(W, start, end) ==
    LET res_err == ErrQuery(TimeFilter(W.metrics, start, end))
    IN [ error_rate |-> IF res_err # None THEN Round2(res_err[1][1], res_err[1][2])
                        ELSE 0 ]

\* list_traces, lines 159-176.  Line 165: the rows with parent_span_id NULL,
\* by start_time descending, the first 50 of them.  The order of rows of equal
\* start_time is the database's: of the rows with the greatest start_time
\* left, the query yields one, or with "flip" another one.
RootFilterNone(rows) == rows
RootFilter(rows) == { r \in rows : r.parent_span_id = None }
RECURSIVE OrderByStartDesc(_, _)
OrderByStartDesc(rows, flip) ==
    IF rows = {} THEN << >>
    ELSE LET top == { r \in rows : \A x \in rows : x.start_time <= r.start_time }
             one == CHOOSE r \in top : TRUE
             pick == IF flip /\ top # {one} THEN CHOOSE r \in top \ {one} : TRUE ELSE one
         IN << pick >> \o OrderByStartDesc(rows \ {pick}, flip)
TraceListLimit == 50
Limit(seq, n) == SubSeq(seq, 1, IF Len(seq) < n THEN Len(seq) ELSE n)
\* Line 172, datetime.fromtimestamp(t).isoformat(): the date and the time of
\* day, t seconds after 1970-01-01T00:00:00, as <<year, month, day, hour,
\* minute, second>>, for t within January 1970 and a local time that is UTC.
isoformat(t) ==
    << 1970, 1, 1 + t \div 86400, (t \div 3600) % 24, (t \div 60) % 60, t % 60 >>
list_traces(W, flip) ==
    LET traces == Limit(OrderByStartDesc(RootFilter(W.spans), flip), TraceListLimit)
    IN [ i \in 1..Len(traces) |->
           [ trace_id |-> traces[i].trace_id, name |-> traces[i].name,
             start_time |-> isoformat(traces[i].start_time),
             status |-> traces[i].status ] ]

\* ---------------------------------------------------------------- routing
\* The routes in the order the decorators register them (lines 110, 159, 178,
\* 198, 254, 269, 276).  The router serves a request with the first route whose
\* method and path match; a path parameter matches any one segment.
RouteTable ==
    << [method |-> "POST", path |-> << "ingest" >>, endpoint |-> "ingest_span"],
       [method |-> "GET", path |-> << "traces" >>, endpoint |-> "list_traces"],
       [method |-> "GET", path |-> << "traces", "{trace_id}" >>,
        endpoint |-> "get_trace_details"],
       [method |-> "GET", path |-> << "analytics", "dashboard" >>,
        endpoint |-> "get_analytics"],
       [method |-> "DELETE", path |-> << "traces", "{trace_id}" >>,
        endpoint |-> "delete_trace"],
       [method |-> "DELETE", path |-> << "analytics", "reset" >>,
        endpoint |-> "reset_analytics"],
       [method |-> "DELETE", path |-> << "traces", "reset" >>,
        endpoint |-> "reset_all_traces"] >>

PathMatches(pattern, path) ==
    /\ Len(pattern) = Len(path)
    /\ \A i \in DOMAIN pattern : pattern[i] = "{trace_id}" \/ pattern[i] = path[i]
RouteMatches(route, method, path) ==
    route.method = method /\ PathMatches(route.path, path)
Route(method, path) ==
    LET hits == { i \in DOMAIN RouteTable : RouteMatches(RouteTable[i], method, path) }
    IN IF hits = {} THEN "not_found"
       ELSE RouteTable[CHOOSE i \in hits : \A j \in hits : i <= j].endpoint

\* ----------------------------------------------------- the endpoint functions
\* An endpoint function runs in one thread of the pool.  Its state: the
\* endpoint, its argument (the body, or the trace_id of the path), where it
\* stands (pc), its locals, and at the end the response.  W is the stored
\* data: [spans, metrics, blobs].  The argument of list_traces is the order
\* in which the database yields rows of equal start_time.
StartHandler(method, path, body) ==
    LET ep == Route(method, path)
    IN [ endpoint |-> ep, method |-> method, path |-> path,
         arg |-> IF ep \in {"ingest_span", "get_analytics", "list_traces"} THEN body
                 ELSE IF ep \in {"get_trace_details", "delete_trace"} THEN path[2]
                 ELSE None,
         pc |-> CASE ep = "ingest_span" -> "query"
                  [] ep \in {"get_trace_details", "get_analytics", "list_traces"} -> "read"
                  [] ep \in {"delete_trace", "reset_all_traces"} -> "spans"
                  [] ep = "reset_analytics" -> "metrics"
                  [] OTHER -> "done",
         existing |-> None, in_hash |-> None, out_hash |-> None,
         status |-> IF ep = "not_found" THEN 404 ELSE 200, result |-> None ]

Done(H, status, result) == [H EXCEPT !.pc = "done", !.status = status, !.result = result]

\* ingest_span, lines 110-157, in its three accesses to the stores.
ingest_span(W, H) ==
    CASE H.pc = "query" ->
           LET i == save_blob(W.blobs, H.arg.inputs)
               o == save_blob(i.dir, H.arg.outputs)
           IN [ world |-> [W EXCEPT !.blobs = o.dir],
                h |-> [H EXCEPT !.pc = "commit", !.in_hash = i.hash,
                                !.out_hash = o.hash,
                                !.existing = FindRow(W.spans, H.arg.span_id)] ]
      [] H.pc = "commit" ->
           LET c == Commit(W.spans, H.existing, RowFrom(H.arg, H.in_hash, H.out_hash))
           IN IF c.ok
              THEN [ world |-> [W EXCEPT !.spans = c.rows],
                     h |-> [H EXCEPT !.pc = "metric"] ]
              ELSE [ world |-> W, h |-> Done(H, 500, None) ]
      [] H.pc = "metric" ->
           LET m == InsertMetric(W.metrics, H.arg)
           IN IF m.ok
              THEN [ world |-> [W EXCEPT !.metrics = m.metrics],
                     h |-> Done(H, 200, Some("ok")) ]
              ELSE [ world |-> W, h |-> Done(H, 500, None) ]

\* delete_trace, lines 254-267.
delete_trace(W, H) ==
    CASE H.pc = "spans" ->
           [ world |-> [W EXCEPT !.spans = DeleteSpans(W.spans, H.arg)],
             h |-> [H EXCEPT !.pc = "metrics"] ]
      [] H.pc = "metrics" ->
           [ world |-> [W EXCEPT !.metrics = DeleteMetrics(W.metrics, H.arg)],
             h |-> Done(H, 200, Some("deleted")) ]

\* reset_analytics, lines 269-274.
reset_analytics(W, H) ==
    [ world |-> [W EXCEPT !.metrics = << >>],
      h |-> Done(H, 200, Some("metrics_cleared")) ]

\* reset_all_traces, lines 276-285.
reset_all_traces(W, H) ==
    CASE H.pc = "spans" ->
           [ world |-> [W EXCEPT !.spans = {}], h |-> [H EXCEPT !.pc = "metrics"] ]
      [] H.pc = "metrics" ->
           [ world |-> [W EXCEPT !.metrics = << >>],
             h |-> Done(H, 200, Some("all_data_cleared")) ]

\* The next access of handler state H to the stores.
HandlerStep(W, H) ==
    CASE H.endpoint = "ingest_span" -> ingest_span(W, H)
      [] H.endpoint = "delete_trace" -> delete_trace(W, H)
      [] H.endpoint = "reset_analytics" -> reset_analytics(W, H)
      [] H.endpoint = "reset_all_traces" -> reset_all_traces(W, H)
      [] H.endpoint = "get_trace_details" ->
           [ world |-> W, h |-> Done(H, 200, get_trace_details(W, H.arg)) ]
      [] H.endpoint = "get_analytics" ->
           [ world |-> W, h |-> Done(H, 200, get_analytics(W, H.arg.start, H.arg.end)) ]
      [] H.endpoint = "list_traces" ->
           [ world |-> W, h |-> Done(H, 200, list_traces(W, H.arg)) ]

RECURSIVE RunToEnd(_, _)
RunToEnd(W, H) ==
    IF H.pc = "done" THEN [world |-> W, h |-> H]
    ELSE LET n == HandlerStep(W, H) IN RunToEnd(n.world, n.h)

World == [spans |-> db_spans, metrics |-> metrics, blobs |-> blob_dir]
LogEntry(H) ==
    [ method |-> H.method, path |-> H.path, endpoint |-> H.endpoint,
      arg |-> H.arg, status |-> H.status, result |-> H.result ]

\* The requests clients send.
Requests ==
    { [method |-> "POST", path |-> << "ingest" >>, body |-> b]
        : b \in IngestBodies(SpanTraces) }
    \cup { [method |-> m, path |-> << "traces", x >>, body |-> None]
             : m \in {"GET", "DELETE"}, x \in TraceIds \cup {"reset"} }
    \cup { [method |-> "DELETE", path |-> << "analytics", "reset" >>, body |-> None] }

\* ------------------------------------- the collector, one request at a time
\* A request served from its arrival to its response with no other request
\* in between.
Serve(req) ==
    /\ Len(http_log) < MaxRequests
    /\ LET r == RunToEnd(World, StartHandler(req.method, req.path, req.body))
       IN /\ db_spans' = r.world.spans
          /\ metrics' = r.world.metrics
          /\ blob_dir' = r.world.blobs
          /\ http_log' = Append(http_log, LogEntry(r.h))
    /\ UNCHANGED << inflight, tracerVars, localVars, deliveryVars >>

NextCollector == \E req \in Requests : Serve(req)

SpecCollector == Init /\ [][NextCollector]_vars

\* ---------------------------------------------- properties of the collector
LogIndexes == DOMAIN http_log
IsIngest(e) == e.endpoint = "ingest_span"
\* The ingests of span s served, in the order of their responses.
IngestsOf(s) == { i \in LogIndexes : IsIngest(http_log[i]) /\ http_log[i].arg.span_id = s }
LastIngestOf(s) == http_log[CHOOSE i \in IngestsOf(s) : \A j \in IngestsOf(s) : j <= i].arg
RowsOf(s) == { r \in db_spans : r.span_id = s }
OnlyIngests == \A i \in LogIndexes : IsIngest(http_log[i])

\* Every field of row r is the field of record rec; the hashes resolve to the
\* record's inputs and outputs.
RowEquals(r, rec) ==
    /\ r.span_id = rec.span_id
    /\ r.trace_id = rec.trace_id
    /\ r.parent_span_id = rec.parent_span_id
    /\ r.name = rec.name
    /\ r.type = rec.type
    /\ r.start_time = rec.start_time
    /\ r.end_time = rec.end_time
    /\ r.duration = rec.duration
    /\ r.status = rec.status
    /\ r.error_message = rec.error_message
    /\ r.metadata_json = rec.meta
    /\ get_blob(blob_dir, r.input_hash) = rec.inputs
    /\ get_blob(blob_dir, r.output_hash) = rec.outputs

\* C7: after any sequence of requests the span store holds at most one row per
\* span_id, and that row equals the last record ingested for the span; after
\* ingests alone every ingested span has its row.  So the RUNNING record
\* followed by the finalized record leaves one row, equal to the finalized one.
C7_UpsertKeepsLastRecord ==
    \A s \in SpanIds :
        /\ Cardinality(RowsOf(s)) <= 1
        /\ \A r \in RowsOf(s) : IngestsOf(s) # {} /\ RowEquals(r, LastIngestOf(s))
        /\ (OnlyIngests /\ IngestsOf(s) # {}) => RowsOf(s) # {}

\* The RUNNING record of s1 was ingested, then its finalized record.
C7_Witness ==
    /\ Len(http_log) >= 2
    /\ IsIngest(http_log[1]) /\ IsIngest(http_log[2])
    /\ http_log[1].arg = BeaconBody("s1", "t1")
    /\ http_log[2].arg.span_id = "s1"
    /\ http_log[2].arg.status = "FAILURE"
    /\ \E r \in db_spans : r.span_id = "s1" /\ r.status = "FAILURE" /\ r.end_time = Some(2)
    /\ Cardinality(db_spans) = 1

\* The last delete_trace(t) served, and what was ingested for t after it.
DeletesOf(t) ==
    { i \in LogIndexes : http_log[i].endpoint = "delete_trace" /\ http_log[i].arg = t }
IngestedSince(t, i) ==
    \E j \in LogIndexes : j > i /\ IsIngest(http_log[j]) /\ http_log[j].arg.trace_id = t

\* C9: once delete_trace(t) has completed, and until a record of trace t is
\* ingested again, the span store holds no span of trace t, get_tree(t) is
\* empty and no Metric record has trace_id t.
C9_DeleteTraceRemovesAll ==
    \A t \in TraceIds \cup {"reset"} :
        \A i \in DeletesOf(t) :
            ~IngestedSince(t, i) =>
                /\ \A r \in db_spans : r.trace_id # t
                /\ get_trace_details(World, t) = {}
                /\ \A k \in DOMAIN metrics : metrics[k].trace_id # t

\* A finalized span of t1 and a span of t2 were ingested, then t1 was deleted:
\* the span of t2 is still there.
C9_Witness ==
    /\ Len(http_log) = 3
    /\ IsIngest(http_log[1]) /\ http_log[1].arg.trace_id = "t1"
    /\ http_log[1].arg.status = "SUCCESS" /\ http_log[1].status = 200
    /\ IsIngest(http_log[2]) /\ http_log[2].arg.trace_id = "t2"
    /\ http_log[3].endpoint = "delete_trace" /\ http_log[3].arg = "t1"
    /\ db_spans # {}

\* C10: after a DELETE request to /traces/reset has been served, the span store
\* and the Metric records are empty.
C10_ResetPathWipesAll ==
    (/\ http_log # << >>
     /\ Last(http_log).method = "DELETE"
     /\ Last(http_log).path = << "traces", "reset" >>)
        => (db_spans = {} /\ metrics = << >>)

\* --------------------------------------- the collector, requests interleaved
\* The endpoint functions are plain "def"s, which the server runs in a thread
\* pool: requests are served concurrently, and each access of a handler to a
\* store is a transaction of its own.
ConcRequests ==
    { [method |-> "POST", path |-> << "ingest" >>, body |-> b]
        : b \in { BeaconBody("s1", "t1"),
                  SpanIngest("s1", "t1", "SUCCESS", Some(2), Some(1), None, Some("ok"),
                             [usage |-> [kind |-> "dict", total_tokens |-> 7], cost |-> 3]),
                  SpanIngest("s1", "t1", "FAILURE", Some(2), Some(1), Some("boom"), None,
                             EmptyDict) } }
    \cup { [method |-> "DELETE", path |-> << "traces", "t1" >>, body |-> None] }

Busy == { h \in Handlers : inflight[h] # Idle }

\* A request arrives and a free thread of the pool takes it.
Accept(h, req) ==
    /\ inflight[h] = Idle
    /\ Len(http_log) + Cardinality(Busy) < MaxRequests
    /\ inflight' = [inflight EXCEPT ![h] = StartHandler(req.method, req.path, req.body)]
    /\ UNCHANGED << db_spans, metrics, blob_dir, http_log, tracerVars, localVars,
                    deliveryVars >>

\* The handler of thread h makes its next access to the stores; after the
\* last one the response is sent.
Step(h) ==
    /\ inflight[h] # Idle
    /\ LET n == HandlerStep(World, inflight[h])
       IN /\ db_spans' = n.world.spans
          /\ metrics' = n.world.metrics
          /\ blob_dir' = n.world.blobs
          /\ IF n.h.pc = "done"
             THEN /\ http_log' = Append(http_log, LogEntry(n.h))
                  /\ inflight' = [inflight EXCEPT ![h] = Idle]
             ELSE /\ inflight' = [inflight EXCEPT ![h] = n.h]
                  /\ UNCHANGED http_log
    /\ UNCHANGED << tracerVars, localVars, deliveryVars >>

NextConc ==
    \/ \E h \in Handlers, req \in ConcRequests : Accept(h, req)
    \/ \E h \in Handlers : Step(h)

SpecConc == Init /\ [][NextConc]_vars

\* C8: the ingest operation answers every well-formed record with status ok,
\* also when writing the span row or the Metric record fails.
C8_IngestAlwaysOk ==
    \A i \in LogIndexes : IsIngest(http_log[i]) => http_log[i].status = 200

\* ------------------------------------------------ the analytics dashboard
MaxQueries == 4

\* Finalized records of span s1 that began at time 1 or 2, and dashboard
\* requests with and without the start and end parameters.
AnalyticsRequests ==
    { [method |-> "POST", path |-> << "ingest" >>,
       body |-> [SpanIngest("s1", "t1", st, Some(3), Some(1), None, None, EmptyDict)
                    EXCEPT !.start_time = b]]
        : st \in {"SUCCESS", "FAILURE"}, b \in {1, 2} }
    \cup { [method |-> "GET", path |-> << "analytics", "dashboard" >>,
            body |-> [start |-> a, end |-> e]]
             : a \in {None, Some(""), Some("1970-01-01 00:00:02")},
               e \in {None, Some("1970-01-01 00:00:01")} }

ServeQuery(req) ==
    /\ Len(http_log) < MaxQueries
    /\ LET r == RunToEnd(World, StartHandler(req.method, req.path, req.body))
       IN /\ db_spans' = r.world.spans
          /\ metrics' = r.world.metrics
          /\ blob_dir' = r.world.blobs
          /\ http_log' = Append(http_log, LogEntry(r.h))
    /\ UNCHANGED << inflight, tracerVars, localVars, deliveryVars >>

NextAnalytics == \E req \in AnalyticsRequests : ServeQuery(req)
SpecAnalytics == Init /\ [][NextAnalytics]_vars

\* The Metric records a dashboard request with parameters q selects, and those
\* of them with status FAILURE.
SelectedBy(q) ==
    { i \in DOMAIN metrics :
        /\ (q.start # None /\ q.start # Some("")) =>
               metrics[i].time >= ParseTimestamp(q.start[1])
        /\ (q.end # None /\ q.end # Some("")) =>
               metrics[i].time <= ParseTimestamp(q.end[1]) }
FailuresIn(S) == { i \in S : metrics[i].status = "FAILURE" }
AnsweredDashboard ==
    /\ http_log # << >>
    /\ Last(http_log).endpoint = "get_analytics"
    /\ Last(http_log).status = 200

\* C11 as stated: the error rate reported for N selected rows of which K have
\* status FAILURE is exactly K/N*100, and 0 when N = 0.  (The reported rate is
\* in hundredths of a percent: rate/100 = K/N*100.)
C11_ErrorRateExact ==
    AnsweredDashboard =>
        LET S == SelectedBy(Last(http_log).arg)
            N == Cardinality(S)
            K == Cardinality(FailuresIn(S))
            rate == Last(http_log).result.error_rate
        IN IF N = 0 THEN rate = 0 ELSE rate * N = 10000 * K

\* C11 as amended: the reported error rate is K/N*100 rounded to two decimal
\* places, that is, the multiple of 0.01 nearest to K/N*100 (no further from
\* it than 0.005), and 0 when N = 0.
C11_ErrorRateRounded ==
    AnsweredDashboard =>
        LET S == SelectedBy(Last(http_log).arg)
            N == Cardinality(S)
            K == Cardinality(FailuresIn(S))
            rate == Last(http_log).result.error_rate
        IN IF N = 0 THEN rate = 0
           ELSE /\ 2 * (rate * N - 10000 * K) <= N
                /\ 2 * (10000 * K - rate * N) <= N

\* Three rows, one of them a FAILURE, none filtered out: 33.33 is reported.
C11_Witness ==
    /\ AnsweredDashboard
    /\ Len(metrics) = 3
    /\ Cardinality(SelectedBy(Last(http_log).arg)) = 3
    /\ Cardinality(FailuresIn(SelectedBy(Last(http_log).arg))) = 1
    /\ Last(http_log).result.error_rate = 3333

\* ------------------------------------------------------- the blob stores
MaxBlobCalls == 3

\* Dicts to save: {"a": 1, "b": 2}, the equal dict {"b": 2, "a": 1} built in
\* the other order, and {"a": 1}.
Dicts == { << << "a", 1 >>, << "b", 2 >> >>,
           << << "b", 2 >>, << "a", 1 >> >>,
           << << "a", 1 >> >> }
\* What StorageEngine.save_blob is given: dicts json.dumps encodes, a dict it
\* refuses (say with a tuple as key) and str() renders, and an object whose
\* __str__ raises as well.
LocalBlobValues ==
    { [ser |-> "dict", body |-> d] : d \in Dicts }
    \cup { [ser |-> "str", body |-> << << "c", 3 >> >>],
           [ser |-> "none", body |-> << << "c", 3 >> >>] }
\* What the collector's save_blob is given: the inputs or outputs of a parsed
\* request body, None or a JSON object.
CollectorBlobValues == { None } \cup { Some(d) : d \in Dicts }

\* storage.save_blob(v) on the local blob directory.
SaveLocal(v) ==
    /\ Len(blob_calls) < MaxBlobCalls
    /\ LET r == LocalSaveBlob(blobs, v)
       IN /\ blobs' = r.store
          /\ blob_calls' = Append(blob_calls,
                 [ op |-> "save", store |-> "local", value |-> v,
                   ok |-> ~r.raised,
                   hash |-> IF r.raised THEN None ELSE Some(r.hash) ])
    /\ UNCHANGED << local_spans, blob_io, tracerVars, collectorVars, deliveryVars >>

\* save_blob(v) on the collector's blob directory.
SaveCollector(v) ==
    /\ Len(blob_calls) < MaxBlobCalls
    /\ LET r == save_blob(blob_dir, v)
       IN /\ blob_dir' = r.dir
          /\ blob_calls' = Append(blob_calls,
                 [ op |-> "save", store |-> "collector", value |-> v,
                   ok |-> TRUE, hash |-> r.hash ])
    /\ UNCHANGED << blobs, local_spans, blob_io, tracerVars, db_spans, metrics, inflight,
                    http_log, deliveryVars >>

\* dashboard.py load_blob, lines 17-23: {} for no hash, the parsed file, or
\* the "Blob not found" dict; json.load raises on a file that is not JSON.
load_blob(store, blob_hash) ==
    IF blob_hash = None THEN [raised |-> FALSE, value |-> << >>]
    ELSE IF BlobExists(store, blob_hash[1])
         THEN LET text == store[CHOOSE i \in DOMAIN store :
                                    store[i].hash = blob_hash[1]].text
              IN IF Parses(text) THEN [raised |-> FALSE, value |-> JsonLoad(text)]
                 ELSE [raised |-> TRUE]
         ELSE [raised |-> FALSE, value |-> << << "error", "Blob not found" >> >>]

\* The dashboard loads the blob whose hash save call i returned.
LoadLocal(i) ==
    /\ Len(blob_calls) < MaxBlobCalls
    /\ blob_calls[i].op = "save" /\ blob_calls[i].store = "local" /\ blob_calls[i].ok
    /\ LET r == load_blob(blobs, blob_calls[i].hash)
       IN blob_calls' = Append(blob_calls,
              [ op |-> "load", store |-> "local", of |-> i, ok |-> ~r.raised,
                result |-> IF r.raised THEN None ELSE Some(r.value) ])
    /\ UNCHANGED << blobs, local_spans, blob_io, tracerVars, collectorVars, deliveryVars >>

\* get_blob on the hash save call i on the collector returned.
LoadCollector(i) ==
    /\ Len(blob_calls) < MaxBlobCalls
    /\ blob_calls[i].op = "save" /\ blob_calls[i].store = "collector"
    /\ LET raised == GetBlobRaises(blob_dir, blob_calls[i].hash)
       IN blob_calls' = Append(blob_calls,
              [ op |-> "load", store |-> "collector", of |-> i, ok |-> ~raised,
                result |-> IF raised THEN None
                           ELSE get_blob(blob_dir, blob_calls[i].hash) ])
    /\ UNCHANGED << blobs, local_spans, blob_io, tracerVars, collectorVars, deliveryVars >>

NextBlob ==
    \/ \E v \in LocalBlobValues : SaveLocal(v)
    \/ \E v \in CollectorBlobValues : SaveCollector(v)
    \/ \E i \in DOMAIN blob_calls : LoadLocal(i)
    \/ \E i \in DOMAIN blob_calls : LoadCollector(i)

SpecBlob == Init /\ [][NextBlob]_vars

\* The calls of save on a store that returned a hash.
SavesOn(st) ==
    { i \in DOMAIN blob_calls :
        /\ blob_calls[i].op = "save"
        /\ blob_calls[i].store = st
        /\ blob_calls[i].ok
        /\ blob_calls[i].hash # None }
\* The canonical content of the value of save call i: what kind of text it
\* has and its items, whatever their order.
CanonOf(i) ==
    LET c == blob_calls[i]
    IN IF c.store = "local" THEN [ser |-> c.value.ser, items |-> Items(c.value.body)]
       ELSE [ser |-> "dict", items |-> Items(c.value[1])]
\* The hashes of the blobs a store holds, one entry per stored object.
StoredHashes(st) ==
    IF st = "local" THEN [k \in DOMAIN blobs |-> blobs[k].hash]
    ELSE LET files == CHOOSE f \in [1..Cardinality(blob_dir) -> blob_dir] :
                          \A a, b \in DOMAIN f : a # b => f[a] # f[b]
         IN [k \in DOMAIN files |-> files[k].hash]

\* C12: on either store, two saves of values with equal canonical content
\* return the same hash, exactly one stored blob has that hash, and the store
\* holds as many blobs as distinct canonical contents were saved.
C12_BlobIdempotence ==
    \A st \in {"local", "collector"} :
        /\ \A i, j \in SavesOn(st) :
               CanonOf(i) = CanonOf(j) =>
                   /\ blob_calls[i].hash = blob_calls[j].hash
                   /\ Cardinality({ k \in DOMAIN StoredHashes(st) :
                                      StoredHashes(st)[k] = blob_calls[i].hash[1] }) = 1
        /\ Len(StoredHashes(st)) = Cardinality({ CanonOf(i) : i \in SavesOn(st) })

\* The loads of a hash that a save returned, and the text save stored for it.
LoadsOfSaved == { j \in DOMAIN blob_calls :
                    blob_calls[j].op = "load" /\ blob_calls[blob_calls[j].of].hash # None }
SavedValue(j) == blob_calls[blob_calls[j].of].value
SavedText(j) ==
    IF blob_calls[j].store = "local" THEN LocalSerialize(SavedValue(j))[1]
    ELSE JsonDumps(SavedValue(j)[1])

\* C19: a load of a hash that save returned does not fail; it returns the
\* saved value when the stored text parses, and the stored text itself when it
\* does not.
C19_LoadNeverFails ==
    \A j \in LoadsOfSaved :
        /\ blob_calls[j].ok
        /\ blob_calls[j].result # None
        /\ IF Parses(SavedText(j))
           THEN Items(blob_calls[j].result[1]) = Items(JsonLoad(SavedText(j)))
           ELSE blob_calls[j].result[1] = SavedText(j)

\* ------------------------------------ backend/tracer.py: the worker thread
MaxSpans == 1

\* The items still in the queue, oldest first, as indexes of span_queue.
RECURSIVE Ascending(_)
Ascending(S) ==
    IF S = {} THEN << >>
    ELSE LET m == CHOOSE x \in S : \A y \in S : x <= y
         IN << m >> \o Ascending(S \ {m})
Pending == Ascending(DOMAIN span_queue \ taken)
\* queue.Queue.get(): the oldest item; it waits while the queue is empty.
QueueGetNewest(pending) == Last(pending)
QueueGet(pending) == Head(pending)

\* A result json cannot encode: requests.post(json=payload) raises TypeError
\* on it before anything is sent.
Unencodable == {"obj"}
Encodable(payload) ==
    ~(HasKey(payload, "outputs") /\ payload.outputs # None
        /\ payload.outputs[1] \in Unencodable)
\* The body the collector parses from the JSON of a payload: class SpanIngest
\* gives the keys the payload lacks their defaults.
ToBody(payload) ==
    [ span_id |-> payload.span_id, trace_id |-> payload.trace_id,
      parent_span_id |-> payload.parent_span_id, name |-> payload.name,
      type |-> payload.type, start_time |-> payload.start_time,
      end_time |-> IF HasKey(payload, "end_time") THEN Some(payload.end_time) ELSE None,
      duration |-> IF HasKey(payload, "duration") THEN Some(payload.duration) ELSE None,
      status |-> payload.status,
      error_message |-> IF HasKey(payload, "error_message")
                        THEN Some(payload.error_message) ELSE None,
      inputs |-> Some(payload.inputs),
      outputs |-> IF HasKey(payload, "outputs") THEN payload.outputs ELSE None,
      meta |-> payload.meta ]

\* How the unit of a traced call ends, and whether a POST reaches the
\* collector.
DeliveryOutcomes ==
    { [kind |-> "return", val |-> Some("ok")], [kind |-> "return", val |-> Some("obj")],
      [kind |-> "raise", exc |-> [cls |-> "Exception", msg |-> "boom"]] }
NetOutcomes == {"reached", "refused"}

\* Lines 32-34, the handler of the worker: the error is printed; the payload
\* is not put back.
OnFailureRequeue(q, payload) == Put(q, payload)
OnFailure(q, payload) == q

\* The sentinel that ends a consumer: the None of "if payload is None: break".
Sentinel == [sentinel |-> TRUE]
IsSentinelAlways(payload) == TRUE
IsSentinel(payload) == HasKey(payload, "sentinel")

\* Lines 23-24 (diagnose.py 46-47): consumer w takes the oldest item.
Get(w) ==
    /\ workers[w].pc = "get"
    /\ Pending # << >>
    /\ LET i == QueueGet(Pending)
       IN /\ taken' = taken \cup {i}
          /\ workers' = [workers EXCEPT ![w] =
                 IF IsSentinel(span_queue[i]) THEN [pc |-> "stopped"]
                 ELSE [pc |-> "post", idx |-> i, payload |-> span_queue[i]]]
    /\ UNCHANGED << objectVars, sent, tracerVars, localVars, collectorVars >>

\* Lines 26-36 (diagnose.py 49-55): consumer w posts its payload once, prints
\* what went wrong if anything did, and goes back to the queue.
\* requests.post raises at once when the payload cannot be encoded or the
\* collector is not reached: nothing arrives there.
PostFails(w, net) ==
    /\ workers[w].pc = "post"
    /\ ~Encodable(workers[w].payload) \/ net = "refused"
    /\ span_queue' = OnFailure(span_queue, workers[w].payload)
    /\ sent' = Append(sent, [ idx |-> workers[w].idx, worker |-> w, seen |-> "raised",
                              how |-> IF Encodable(workers[w].payload) THEN "refused"
                                      ELSE "unencodable" ])
    /\ workers' = [workers EXCEPT ![w] = [pc |-> "get"]]
    /\ UNCHANGED << objectVars, taken, collectorVars, ctx_trace_id, ctx_span_id, stack, minted,
                    clock, observed, owner, joined, localVars >>

\* The request of consumer w reaches the collector, where a free thread of the
\* pool (the threads are alike: the first free one) starts ingest_span on it;
\* w waits for the response.
PostArrives(w, h) ==
    /\ workers[w].pc = "post"
    /\ Encodable(workers[w].payload)
    /\ inflight[h] = Idle
    /\ \A g \in Handlers : g < h => inflight[g] # Idle
    /\ inflight' = [inflight EXCEPT ![h] =
           StartHandler("POST", << "ingest" >>, ToBody(workers[w].payload))]
    /\ workers' = [workers EXCEPT ![w].pc = "wait"]
    /\ UNCHANGED << objectVars, taken, sent, db_spans, metrics, blob_dir, http_log, tracerVars,
                    localVars >>

\* The responses the collector has sent to the request made for payload.
ResponsesTo(payload) ==
    { k \in DOMAIN http_log :
        http_log[k].endpoint = "ingest_span" /\ http_log[k].arg = ToBody(payload) }

\* Lines 29-31: the response arrives within the timeout; a status other than
\* 200 is printed.
PostReturns(w) ==
    /\ workers[w].pc = "wait"
    /\ ResponsesTo(workers[w].payload) # {}
    /\ LET k == CHOOSE k \in ResponsesTo(workers[w].payload) : TRUE
           seen == IF http_log[k].status = 200 THEN "ok" ELSE "rejected"
       IN /\ span_queue' = IF seen = "ok" THEN span_queue
                           ELSE OnFailure(span_queue, workers[w].payload)
          /\ sent' = Append(sent, [ idx |-> workers[w].idx, worker |-> w, seen |-> seen,
                                    how |-> "answered" ])
    /\ workers' = [workers EXCEPT ![w] = [pc |-> "get"]]
    /\ UNCHANGED << objectVars, taken, collectorVars, ctx_trace_id, ctx_span_id, stack, minted,
                    clock, observed, owner, joined, localVars >>

\* Lines 29 and 32-34: timeout=2.0 expires before the response: requests.post
\* raises ReadTimeout and w goes on, while the collector goes on serving the
\* request.
PostTimesOut(w) ==
    /\ workers[w].pc = "wait"
    /\ span_queue' = OnFailure(span_queue, workers[w].payload)
    /\ sent' = Append(sent, [ idx |-> workers[w].idx, worker |-> w, seen |-> "raised",
                              how |-> "timeout" ])
    /\ workers' = [workers EXCEPT ![w] = [pc |-> "get"]]
    /\ UNCHANGED << objectVars, taken, collectorVars, ctx_trace_id, ctx_span_id, stack, minted,
                    clock, observed, owner, joined, localVars >>

\* One task makes up to MaxSpans traced calls, nested or one after the other,
\* while the worker drains the queue and the collector serves what arrives.
NextDelivery ==
    \/ \E mode \in Modes, name \in Names :
          Cardinality(CalledIds) < MaxSpans /\ Enter(1, mode, name)
    \/ \E out \in DeliveryOutcomes : Finish(1, out)
    \/ Get("worker")
    \/ \E net \in NetOutcomes : PostFails("worker", net)
    \/ \E h \in Handlers : PostArrives("worker", h)
    \/ PostReturns("worker")
    \/ PostTimesOut("worker")
    \/ \E h \in Handlers : Step(h)

SpecDelivery == Init /\ [][NextDelivery]_vars

\* The entries of sent about item i of the queue, and the ingest requests the
\* collector has served or is serving for it.
SentOf(i) == { k \in DOMAIN sent : sent[k].idx = i }
ServedFor(i) ==
    { k \in LogIndexes : IsIngest(http_log[k]) /\ http_log[k].arg = ToBody(span_queue[i]) }
ServingFor(i) ==
    { h \in Handlers : inflight[h] # Idle /\ inflight[h].arg = ToBody(span_queue[i]) }
Holding(w) == workers[w].pc \in {"post", "wait"}

\* C13: every record put on the queue is dequeued at most once, has at most
\* one POST attempted and is served by the collector at most once; a record
\* whose POST raised or was answered with a status other than 200 is not put
\* on the queue again, so the queue never holds a record twice.
C13_AtMostOnce ==
    /\ \A i \in DOMAIN span_queue :
           /\ Cardinality(SentOf(i)) <= 1
           /\ Cardinality(ServedFor(i)) + Cardinality(ServingFor(i)) <= 1
           /\ (SentOf(i) # {} \/ ServedFor(i) # {} \/ ServingFor(i) # {}) => i \in taken
           /\ \A w \in Workers :
                  (Holding(w) /\ workers[w].idx = i) => SentOf(i) = {}
    /\ \A i, j \in DOMAIN span_queue : i # j => span_queue[i] # span_queue[j]
    /\ \A w, v \in Workers :
           (Holding(w) /\ Holding(v) /\ w # v) => workers[w].idx # workers[v].idx

\* One POST was refused, one timed out and one was answered with an error or
\* not at all; every record is gone from the queue and the worker waits on the
\* empty queue.
C13_Witness ==
    /\ \E k \in DOMAIN sent : sent[k].how = "refused"
    /\ \E k \in DOMAIN sent : sent[k].how = "timeout"
    /\ Pending = << >>
    /\ workers["worker"].pc = "get"
    /\ Len(sent) = Len(span_queue)
    /\ Len(span_queue) >= 2

\* C14: the put of a record never waits: whatever the length of the queue,
\* and whether or not the worker has taken anything or the collector was
\* reached, the queue is not full and a call whose unit ends, returning or
\* raising, can always put its finalized record and end.
C14_SubmitNeverBlocks ==
    /\ ~Full(span_queue)
    /\ \A t \in Tasks :
           stack[t] # << >> =>
               \A out \in DeliveryOutcomes : ENABLED Finish(t, out)

\* Both records of a call were put and the call ended while the worker had
\* taken nothing.
C14_Witness ==
    /\ Len(span_queue) >= 2
    /\ taken = {}
    /\ Finished(1)
    /\ stack[1] = << >>

\* The queue indexes of the RUNNING record and of the finalized record of
\* span s, and whether the collector answered the POST of item i with 200.
BeaconIndex(s) == CHOOSE i \in BeaconsOf(s) : TRUE
FinalIndex(s) == CHOOSE i \in FinalsOf(s) : TRUE
Ingested(i) == \E k \in ServedFor(i) : http_log[k].status = 200

\* C15: with the single worker the records are posted in the order in which
\* they were put on the queue, so the RUNNING record of a span is posted
\* before its finalized record; and once the collector has ingested both, the
\* stored row of the span is the finalized record.
C15_FifoFinalWins ==
    /\ \A a, b \in DOMAIN sent : a < b => sent[a].idx < sent[b].idx
    /\ \A s \in CalledIds :
           (BeaconsOf(s) # {} /\ FinalsOf(s) # {}) =>
               /\ SentOf(FinalIndex(s)) # {} => SentOf(BeaconIndex(s)) # {}
               /\ (Ingested(BeaconIndex(s)) /\ Ingested(FinalIndex(s))) =>
                      \E r \in db_spans :
                          /\ r.span_id = s
                          /\ RowEquals(r, ToBody(span_queue[FinalIndex(s)]))

\* ------------------------------------- backend/tracer.py: distributed context
\* get_context_headers, lines 134-148, in a process whose active trace id and
\* span id are trace and span: a header is present only for a truthy value.
get_context_headers(trace, span) ==
    [ k \in (IF TruthyStr(trace) THEN {"X-Trace-Id"} ELSE {})
            \cup (IF TruthyStr(span) THEN {"X-Parent-Span-Id"} ELSE {})
        |-> IF k = "X-Trace-Id" THEN trace[1] ELSE span[1] ]
\* headers.get(name): None when the header is absent.
HeaderGet(headers, name) == IF name \in DOMAIN headers THEN Some(headers[name]) ELSE None
\* The headers a remote caller sends: it is inside trace "x-trace", in span
\* "x-span" or in no span.
RemoteHeaders ==
    { get_context_headers(Some("x-trace"), span) : span \in {None, Some("x-span")} }

\* join_trace, lines 150-158.
join_trace(t, trace_id, parent_span_id) ==
    /\ ctx_trace_id' = IF TruthyStr(trace_id) THEN CtxSet(ctx_trace_id, t, trace_id)
                       ELSE ctx_trace_id
    /\ ctx_span_id' = IF TruthyStr(parent_span_id) THEN CtxSet(ctx_span_id, t, parent_span_id)
                      ELSE ctx_span_id

\* Task t, serving a request that carries headers, joins the caller's trace.
\* Each task does so at most once, at any point of its run.
JoinTrace(t, headers) ==
    /\ joined[t] = None
    /\ join_trace(t, HeaderGet(headers, "X-Trace-Id"), HeaderGet(headers, "X-Parent-Span-Id"))
    /\ joined' = [joined EXCEPT ![t] =
           Some([ at |-> Len(span_queue),
                  trace_id |-> HeaderGet(headers, "X-Trace-Id"),
                  parent_span_id |-> HeaderGet(headers, "X-Parent-Span-Id") ])]
    /\ UNCHANGED << span_queue, stack, minted, clock, observed, owner, localVars,
                    collectorVars, deliveryVars >>

MaxJoinSpans == 2
NextJoin ==
    \/ \E t \in Tasks, mode \in Modes, name \in Names :
          Cardinality(CalledIds) < MaxJoinSpans /\ Enter(t, mode, name)
    \/ \E t \in Tasks, out \in UnitOutcomes : Finish(t, out)
    \/ \E t \in Tasks, headers \in RemoteHeaders : JoinTrace(t, headers)

SpecJoin == Init /\ [][NextJoin]_vars

\* The RUNNING records task t has put on the queue since its join_trace call.
BeaconsSinceJoin(t) ==
    { i \in DOMAIN span_queue :
        /\ i > joined[t][1].at
        /\ << span_queue[i].span_id, t >> \in owner
        /\ i \in BeaconsOf(span_queue[i].span_id) }

\* C16: the first span a task records after join_trace(trace_id,
\* parent_span_id) has that trace_id and that parent_span_id, null included,
\* whatever was active in the task before the call.
C16_JoinAdoptsContext ==
    \A t \in Tasks :
        (joined[t] # None /\ BeaconsSinceJoin(t) # {}) =>
            LET first == CHOOSE i \in BeaconsSinceJoin(t) :
                             \A j \in BeaconsSinceJoin(t) : i <= j
            IN /\ Some(span_queue[first].trace_id) = joined[t][1].trace_id
               /\ span_queue[first].parent_span_id = joined[t][1].parent_span_id

\* ------------------------------------------------ the Metric records
\* Records of span s1 posted to /ingest: the RUNNING record; finalized records
\* with no meta, with token usage and cost, and with a usage that has no
\* total_tokens; and a finalized record that began and ended at time 0.
MetricRequests ==
    { [method |-> "POST", path |-> << "ingest" >>, body |-> b] :
        b \in { BeaconBody("s1", "t1") }
              \cup { SpanIngest("s1", "t1", "SUCCESS", Some(2), Some(1), None, None, m) :
                       m \in { EmptyDict,
                               [usage |-> [kind |-> "dict", total_tokens |-> 7], cost |-> 3],
                               [usage |-> [kind |-> "dict"]] } }
              \cup { [SpanIngest("s1", "t1", "SUCCESS", Some(0), Some(0), None, None, EmptyDict)
                        EXCEPT !.start_time = 0] } }

NextMetric == \E req \in MetricRequests : ServeQuery(req)
SpecMetric == Init /\ [][NextMetric]_vars

\* The ingests served whose record has a non-null end_time, oldest first.
Finalized == SelectSeq(http_log, LAMBDA e : IsIngest(e) /\ e.arg.end_time # None)
\* The Metric record the claim expects for record rec.
ExpectedMetric(m, rec) ==
    /\ m.trace_id = rec.trace_id
    /\ m.span_id = rec.span_id
    /\ m.name = rec.name
    /\ m.type = rec.type
    /\ m.status = rec.status
    /\ Some(m.duration) = rec.duration
    /\ m.tokens_total = IF HasKey(rec.meta, "usage") /\ HasKey(rec.meta.usage, "total_tokens")
                        THEN rec.meta.usage.total_tokens ELSE 0
    /\ m.cost = IF HasKey(rec.meta, "cost") THEN rec.meta.cost ELSE 0

\* C17: after any sequence of ingests the Metric records are, in order, one
\* per ingested record with a non-null end_time (0 included), each carrying
\* that record's trace_id, span_id, name, type, status and duration, and
\* tokens and cost from its meta or zero; a record with a null end_time adds
\* none.
C17_MetricPerFinalizedRecord ==
    /\ Len(metrics) = Len(Finalized)
    /\ \A k \in DOMAIN metrics :
           k \in DOMAIN Finalized => ExpectedMetric(metrics[k], Finalized[k].arg)

\* ------------------------------------------------------- the list of traces
\* A client that ingests MaxRows records one after the other and then asks
\* for the list of traces.  Record k is the finalized record of span "r<k>"
\* of a trace of its own, except that every 25th record from the 3rd on is a
\* child of span r1 in the trace of r1.  The start times are not in the order
\* of ingestion, and each is shared by two records.
MaxRows == 54
MaxLists == 1
IsChild(k) == k % 25 = 3
RowStart(k) == (((k * 7) % 53) + 1) \div 2
RowBody(k) ==
    [ SpanIngest("r" \o ToString(k), "t" \o ToString(IF IsChild(k) THEN 1 ELSE k),
                 IF k % 3 = 0 THEN "FAILURE" ELSE "SUCCESS",
                 Some(RowStart(k) + 1), Some(1), None, None, EmptyDict)
        EXCEPT !.parent_span_id = IF IsChild(k) THEN Some("r1") ELSE None,
               !.name = IF IsChild(k) THEN "child" ELSE "root",
               !.start_time = RowStart(k) ]
ListsServed == Len(SelectSeq(http_log, LAMBDA e : e.endpoint = "list_traces"))

ServeRow(req) ==
    /\ LET r == RunToEnd(World, StartHandler(req.method, req.path, req.body))
       IN /\ db_spans' = r.world.spans
          /\ metrics' = r.world.metrics
          /\ blob_dir' = r.world.blobs
          /\ http_log' = Append(http_log, LogEntry(r.h))
    /\ UNCHANGED << inflight, tracerVars, localVars, deliveryVars >>
IngestRow ==
    /\ ListsServed = 0
    /\ Cardinality(db_spans) < MaxRows
    /\ ServeRow([method |-> "POST", path |-> << "ingest" >>,
                 body |-> RowBody(Cardinality(db_spans) + 1)])
ListTraces(flip) ==
    /\ ListsServed < MaxLists
    /\ ServeRow([method |-> "GET", path |-> << "traces" >>, body |-> flip])

NextRoots == IngestRow \/ \E flip \in BOOLEAN : ListTraces(flip)
SpecRoots == Init /\ [][NextRoots]_vars

\* The root rows of the store, and the row an entry of the list stands for.
RootRows == { r \in db_spans : r.parent_span_id = None }
Lists(e, r) ==
    /\ e.trace_id = r.trace_id
    /\ e.name = r.name
    /\ e.status = r.status
    /\ e.start_time = isoformat(r.start_time)
ListedRoot(e) == CHOOSE r \in RootRows : Lists(e, r)
AnsweredList ==
    /\ http_log # << >>
    /\ Last(http_log).endpoint = "list_traces"
    /\ Last(http_log).status = 200

\* C18: the list of traces just returned holds only root spans (no entry
\* stands for a span with a non-null parent), each root at most once, in
\* descending order of start_time; it holds all roots when there are at most
\* 50 and otherwise 50 of them, and no root left out started later than a
\* listed one.
C18_ListRoots ==
    AnsweredList =>
        LET res == Last(http_log).result
            listed == { ListedRoot(res[i]) : i \in DOMAIN res }
        IN /\ \A i \in DOMAIN res :
                 /\ \E r \in RootRows : Lists(res[i], r)
                 /\ \A r \in db_spans \ RootRows : ~Lists(res[i], r)
           /\ \A i, j \in DOMAIN res :
                 i < j => /\ ListedRoot(res[i]) # ListedRoot(res[j])
                          /\ ListedRoot(res[i]).start_time >= ListedRoot(res[j]).start_time
           /\ Len(res) = IF Cardinality(RootRows) < 50 THEN Cardinality(RootRows) ELSE 50
           /\ \A r \in RootRows \ listed : \A x \in listed : r.start_time <= x.start_time

\* A list was returned when the store held more than 50 roots, child spans,
\* and a root left out that started at the same time as a listed one.
C18_Witness ==
    /\ AnsweredList
    /\ Cardinality(RootRows) > 50
    /\ db_spans # RootRows
    /\ Len(Last(http_log).result) = 50
    /\ \E r \in RootRows :
          /\ \A i \in DOMAIN Last(http_log).result : ~Lists(Last(http_log).result[i], r)
          /\ \E i \in DOMAIN Last(http_log).result :
                Last(http_log).result[i].start_time = isoformat(r.start_time)

\* ------------------------------------------- the output of a failed call
\* The error envelope {"error": message} as a JSON object.
Envelope(msg) == << << "error", msg >> >>
FailureRows == { r \in db_spans : r.status = "FAILURE" }

\* C21: the stored row of a call whose unit raised has a non-null output_hash,
\* and that hash resolves to the error envelope {"error": message}.
C21_ErrorEnvelopeStored ==
    \A r \in FailureRows :
        /\ r.output_hash # None
        /\ r.error_message # None
        /\ get_blob(blob_dir, r.output_hash) = Some(Envelope(r.error_message[1]))

MaxRaceCalls == 3
EmptyText == [fmt |-> "empty", of |-> << >>]
RaceDicts == { << << "a", 1 >> >>, << << "a", 1 >>, << "b", 2 >> >> }

\* The file of hash h in the local directory gets text.
LocalWriteFile(store, h, text) ==
    IF BlobExists(store, h)
    THEN [ i \in DOMAIN store |->
             IF store[i].hash = h THEN [hash |-> h, text |-> text] ELSE store[i] ]
    ELSE Append(store, [hash |-> h, text |-> text])
\* The file of hash h in the collector's directory gets text.
WriteFile(dir, h, text) ==
    { b \in dir : b.hash # h } \cup { [hash |-> h, text |-> text] }

SaveEntry(io, wrote) ==
    [ op |-> "save", store |-> io.store, value |-> io.value, ok |-> TRUE,
      hash |-> Some(io.hash), existed |-> io.existed, wrote |-> wrote ]

\* backend/main.py save_blob, lines 68-73: the text, its hash, and the open
\* of line 73, which does not look whether the file is there.
CollectorSaveOpen(t, v) ==
    /\ blob_io[t] = Idle
    /\ Len(blob_calls) + Cardinality({ u \in IoThreads : blob_io[u] # Idle }) < MaxRaceCalls
    /\ LET text == JsonDumps(v)
           h == Sha256(text)
       IN /\ blob_io' = [blob_io EXCEPT ![t] =
                 [ pc |-> "write", store |-> "collector", value |-> v, hash |-> h,
                   text |-> text, existed |-> \E b \in blob_dir : b.hash = h ]]
          /\ blob_dir' = WriteFile(blob_dir, h, EmptyText)
    /\ UNCHANGED << blobs, local_spans, blob_calls, tracerVars, db_spans, metrics,
                    inflight, http_log, deliveryVars >>

\* agent_tracer.py save_blob, lines 58-68: the text, its hash and the
\* existence check; the hash is returned at once when the file is there.
LocalSaveCheck(t, v) ==
    /\ blob_io[t] = Idle
    /\ Len(blob_calls) + Cardinality({ u \in IoThreads : blob_io[u] # Idle }) < MaxRaceCalls
    /\ LET text == LocalSerialize([ser |-> "dict", body |-> v])[1]
           h == Sha256(text)
           io == [ pc |-> "open", store |-> "local", value |-> v, hash |-> h,
                   text |-> text, existed |-> BlobExists(blobs, h) ]
       IN IF BlobExists(blobs, h)
          THEN /\ blob_calls' = Append(blob_calls, SaveEntry(io, FALSE))
               /\ UNCHANGED blob_io
          ELSE /\ blob_io' = [blob_io EXCEPT ![t] = io]
               /\ UNCHANGED blob_calls
    /\ UNCHANGED << blobs, local_spans, tracerVars, collectorVars, deliveryVars >>

\* agent_tracer.py line 69: the open.
LocalSaveOpen(t) ==
    /\ blob_io[t] # Idle /\ blob_io[t].pc = "open"
    /\ blobs' = LocalWriteFile(blobs, blob_io[t].hash, EmptyText)
    /\ blob_io' = [blob_io EXCEPT ![t].pc = "write"]
    /\ UNCHANGED << local_spans, blob_calls, tracerVars, collectorVars, deliveryVars >>

\* f.write(text) and the close of the "with" block (main.py 74, agent_tracer.py
\* 70), then the return of the hash.
SaveWrite(t) ==
    /\ blob_io[t] # Idle /\ blob_io[t].pc = "write"
    /\ IF blob_io[t].store = "collector"
       THEN /\ blob_dir' = WriteFile(blob_dir, blob_io[t].hash, blob_io[t].text)
            /\ UNCHANGED blobs
       ELSE /\ blobs' = LocalWriteFile(blobs, blob_io[t].hash, blob_io[t].text)
            /\ UNCHANGED blob_dir
    /\ blob_calls' = Append(blob_calls, SaveEntry(blob_io[t], TRUE))
    /\ blob_io' = [blob_io EXCEPT ![t] = Idle]
    /\ UNCHANGED << local_spans, tracerVars, db_spans, metrics, inflight, http_log,
                    deliveryVars >>

\* get_blob / load_blob of the hash that save call i returned, by a thread
\* that is not in a save.
RaceLoad(t, i) ==
    /\ blob_io[t] = Idle
    /\ Len(blob_calls) + Cardinality({ u \in IoThreads : blob_io[u] # Idle }) < MaxRaceCalls
    /\ blob_calls[i].op = "save"
    /\ LET c == blob_calls[i]
           raised == IF c.store = "collector" THEN GetBlobRaises(blob_dir, c.hash)
                     ELSE load_blob(blobs, c.hash).raised
       IN blob_calls' = Append(blob_calls,
              [ op |-> "load", store |-> c.store, of |-> i, ok |-> ~raised,
                result |-> IF raised THEN None
                           ELSE IF c.store = "collector" THEN get_blob(blob_dir, c.hash)
                           ELSE Some(load_blob(blobs, c.hash).value) ])
    /\ UNCHANGED << blobs, local_spans, blob_io, tracerVars, collectorVars, deliveryVars >>

NextBlobRace ==
    \/ \E t \in IoThreads, v \in RaceDicts : CollectorSaveOpen(t, v)
    \/ \E t \in IoThreads, v \in RaceDicts : LocalSaveCheck(t, v)
    \/ \E t \in IoThreads : LocalSaveOpen(t)
    \/ \E t \in IoThreads : SaveWrite(t)
    \/ \E t \in IoThreads, i \in DOMAIN blob_calls : RaceLoad(t, i)

SpecBlobRace == Init /\ [][NextBlobRace]_vars

RaceSaves == { i \in DOMAIN blob_calls : blob_calls[i].op = "save" }
RaceLoads == { i \in DOMAIN blob_calls : blob_calls[i].op = "load" }
\* A save writes to the blob location exactly when no blob with the hash
\* existed.
WritesOnlyWhenAbsent ==
    \A i \in RaceSaves : blob_calls[i].wrote = ~blob_calls[i].existed
\* A load of a hash that save returned gets the complete content.
LoadsSeeComplete ==
    \A j \in RaceLoads :
        /\ blob_calls[j].ok
        /\ blob_calls[j].result # None
        /\ Items(blob_calls[j].result[1]) = Items(blob_calls[blob_calls[j].of].value)
\* Once a save has returned a hash, the file of that hash is never missing,
\* empty or partial.
ExistingStaysComplete ==
    \A i \in RaceSaves :
        IF blob_calls[i].store = "collector"
        THEN \E b \in blob_dir : b.hash = blob_calls[i].hash[1] /\ b.text # EmptyText
        ELSE \E k \in DOMAIN blobs :
                 blobs[k].hash = blob_calls[i].hash[1] /\ blobs[k].text # EmptyText

\* C23: blobs are write-once: save writes only when no blob with the hash
\* exists, and what a concurrent load or second writer finds under an existing
\* hash is always the complete content.
C23_WriteOnce ==
    /\ WritesOnlyWhenAbsent
    /\ LoadsSeeComplete
    /\ ExistingStaysComplete

\* ------------------------------------------------------------- shutdown
\* The application puts the shutdown sentinel (None) on the queue, at any
\* moment, while it may go on making traced calls.
MaxSentinels == 1
SentinelsPut == { i \in DOMAIN span_queue : IsSentinel(span_queue[i]) }
PutSentinel ==
    /\ Cardinality(SentinelsPut) < MaxSentinels
    /\ ~Full(span_queue)
    /\ span_queue' = Put(span_queue, Sentinel)
    /\ UNCHANGED << ctx_trace_id, ctx_span_id, stack, minted, clock, observed, owner,
                    joined, localVars, collectorVars, deliveryVars >>

NextShutdown ==
    \/ \E mode \in Modes, name \in Names :
          Cardinality(CalledIds) < MaxSpans /\ Enter(1, mode, name)
    \/ \E out \in DeliveryOutcomes : Finish(1, out)
    \/ PutSentinel
    \/ Get("worker")
    \/ \E net \in NetOutcomes : PostFails("worker", net)
    \/ \E h \in Handlers : PostArrives("worker", h)
    \/ PostReturns("worker")
    \/ PostTimesOut("worker")
    \/ \E h \in Handlers : Step(h)

SpecShutdown == Init /\ [][NextShutdown]_vars

\* The sentinel the worker has dequeued.
TakenSentinel == CHOOSE i \in SentinelsPut : i \in taken

\* C24: once the worker has dequeued the sentinel it has stopped; every record
\* put before the sentinel has had exactly one transmission attempted, and no
\* record put after it is dequeued or transmitted.
C24_SentinelStops ==
    /\ (\E i \in SentinelsPut : i \in taken) <=> workers["worker"].pc = "stopped"
    /\ workers["worker"].pc = "stopped" =>
           \A i \in DOMAIN span_queue :
               /\ i < TakenSentinel => Cardinality(SentOf(i)) = 1
               /\ i > TakenSentinel => (i \notin taken /\ SentOf(i) = {})

\* The worker stopped on a sentinel put between the two records of a call:
\* the RUNNING record was transmitted, the finalized one stays in the queue.
C24_Witness ==
    /\ workers["worker"].pc = "stopped"
    /\ Len(span_queue) = 3
    /\ IsSentinel(span_queue[2])
    /\ Len(sent) = 1
    /\ taken = {1, 2}

\* ------------------------------------- the local pipeline: context restore
\* C25: in the local-storage pipeline, whenever a wrapper has ended, also by
\* an error raised while saving the input blob, the task's active span id is
\* the one it had before the wrapper began.
C25_LocalContextRestored ==
    \A t \in Tasks : Finished(t) => observed[t].after = observed[t].before

\* ------------------------------------------------------ one root per trace
RecordedTraces == { span_queue[i].trace_id : i \in DOMAIN span_queue }
RootsOf(tr) ==
    { span_queue[i].span_id : i \in { j \in DOMAIN span_queue :
          span_queue[j].trace_id = tr /\ span_queue[j].parent_span_id = None } }

\* C26: among the spans recorded by the instrumented calls of the tasks, each
\* trace_id has exactly one span whose parent_span_id is null.
C26_OneRootPerTrace ==
    \A tr \in RecordedTraces : Cardinality(RootsOf(tr)) = 1

\* ------------------------------------------- the Metric records of a span
MetricsOf(s) == { k \in DOMAIN metrics : metrics[k].span_id = s }
IngestedSpans == { http_log[i].arg.span_id : i \in { j \in LogIndexes : IsIngest(http_log[j]) } }

\* C27: after any sequence of ingests there is at most one Metric record per
\* span_id: ingesting the same finalized record again adds nothing.
C27_OneMetricPerSpan ==
    \A s \in IngestedSpans : Cardinality(MetricsOf(s)) <= 1

\* ------------------------------------------------ two consumers of the queue
\* diagnose.py lines 59-60: a second consumer thread of the same queue is
\* started while the worker of backend/tracer.py keeps running.
StartWorker(w) ==
    /\ workers[w].pc = "not_started"
    /\ workers' = [workers EXCEPT ![w] = [pc |-> "get"]]
    /\ UNCHANGED << objectVars, taken, sent, tracerVars, localVars, collectorVars >>

NextWorkers ==
    \/ \E mode \in Modes, name \in Names :
          Cardinality(CalledIds) < MaxSpans /\ Enter(1, mode, name)
    \/ \E out \in DeliveryOutcomes : Finish(1, out)
    \/ StartWorker("verbose_worker")
    \/ \E w \in Workers : Get(w)
    \/ \E w \in Workers, net \in NetOutcomes : PostFails(w, net)
    \/ \E w \in Workers, h \in Handlers : PostArrives(w, h)
    \/ \E w \in Workers : PostReturns(w)
    \/ \E w \in Workers : PostTimesOut(w)
    \/ \E h \in Handlers : Step(h)

SpecWorkers == Init /\ [][NextWorkers]_vars

\* C28: with one consumer or two, once the finalized record of a span has
\* been ingested the stored row of the span has a status other than RUNNING
\* and a non-null end_time, and once both records of the span have been
\* ingested the row equals the finalized record.
C28_FinalizedRowStays ==
    \A s \in CalledIds :
        (FinalsOf(s) # {} /\ Ingested(FinalIndex(s))) =>
            /\ \E r \in db_spans : r.span_id = s
            /\ \A r \in db_spans :
                   r.span_id = s =>
                       /\ r.status # "RUNNING"
                       /\ r.end_time # None
                       /\ Ingested(BeaconIndex(s)) =>
                              RowEquals(r, ToBody(span_queue[FinalIndex(s)]))

\* ------------------------------------------------- Metric records and rows
Quiescent == Busy = {}

\* C29: whenever the collector serves no request, every Metric record has a
\* row of the same span_id and trace_id in the span store, also after an
\* ingest of a finalized record and a delete_trace of its trace were served
\* at the same time; so no Metric record of a deleted trace stays behind.
C29_MetricHasRow ==
    Quiescent =>
        \A k \in DOMAIN metrics :
            \E r \in db_spans :
                r.span_id = metrics[k].span_id /\ r.trace_id = metrics[k].trace_id

\* --------------------------------------------------- the worker keeps going
\* The worker thread is scheduled: it takes an item when there is one, it
\* makes its POST, and the POST ends, with the response or, after timeout=2.0,
\* with ReadTimeout.  Nothing is assumed of the producers or of the collector.
WorkerPosts ==
    \/ \E net \in NetOutcomes : PostFails("worker", net)
    \/ \E h \in Handlers : PostArrives("worker", h)
WorkerPostEnds == PostReturns("worker") \/ PostTimesOut("worker")
SpecDeliveryLive ==
    /\ SpecDelivery
    /\ WF_vars(Get("worker"))
    /\ WF_vars(WorkerPosts)
    /\ WF_vars(WorkerPostEnds)

\* The task has made all its calls and the last one has ended.
ProducersDone == Cardinality(CalledIds) = MaxSpans /\ stack[1] = << >>

\* Every record put so far has been dequeued and has had its transmission
\* attempted.
AllAttempted ==
    /\ Pending = << >>
    /\ \A i \in DOMAIN span_queue : i \in taken /\ SentOf(i) # {}

\* C30: with no sentinel and a worker that is scheduled, every record put on
\* the queue is eventually dequeued and has its transmission attempted,
\* whatever happened to the transmissions before it: again and again the queue
\* is empty with every record put so far attempted, and so it is for good once
\* the producers have stopped.
C30_EveryRecordAttempted ==
    /\ []<>AllAttempted
    /\ ProducersDone ~> AllAttempted

\* The first transmission raised and the record put after it was transmitted
\* and answered; the queue is empty.
C30_Witness ==
    /\ Len(sent) = 2
    /\ sent[1].seen = "raised"
    /\ sent[2].seen = "ok"
    /\ sent[2].idx = 2
    /\ Pending = << >>
    /\ ProducersDone

\* ------------------------------------------- the span dict and its copy
\* The span dicts as objects.  The wrapper builds one dict per call (lines
\* 53-57 / 98-102), changes it in place when the unit ends, and the queue holds
\* references: the worker encodes a payload as it is when it posts it.
MaxObjSpans == 2

\* span.copy() (line 59 / 103): a new dict with the keys and values of object
\* o; the result is the heap and the reference to put.
SpanAlias(h, o) == [heap |-> h, ref |-> o]
SpanCopy(h, o) == [heap |-> Append(h, DictCopy(h[o])), ref |-> Len(h) + 1]

\* Lines 43-59 / 92-103, with the span as an object.
EnterObj(t, mode, name) ==
    /\ minted + ResolveTrace(mode, CtxGet(ctx_trace_id, t), minted)[2] + 1 <= MaxUuids
    /\ Len(stack[t]) < MaxDepth
    /\ Cardinality(CalledIds) < MaxObjSpans
    /\ LET res == ResolveTrace(mode, CtxGet(ctx_trace_id, t), minted)
           trace_id == res[1]
           parent_id == CtxGet(ctx_span_id, t)
           span_id == uuid4(minted + res[2])
           token == CtxGet(ctx_span_id, t)
           built == Append(heap, NewSpan(span_id, trace_id, parent_id, name, clock))
           span == Len(built)
           copy == SpanCopy(built, span)
       IN /\ ctx_trace_id' = CtxSet(ctx_trace_id, t, Some(trace_id))
          /\ ctx_span_id' = CtxSet(ctx_span_id, t, Some(span_id))
          /\ heap' = copy.heap
          /\ obj_queue' = Put(obj_queue, [obj |-> copy.ref, at |-> "start"])
          /\ stack' = [stack EXCEPT ![t] = Append(@, [obj |-> span, token |-> token])]
          /\ minted' = minted + res[2] + 1
          /\ clock' = clock + 1
          /\ owner' = owner \cup { << span_id, t >> }
    /\ UNCHANGED << span_queue, observed, joined, transmitted, taken, workers, sent,
                    localVars, collectorVars >>

\* Lines 61-78 / 105-118, with the span as an object: the dict is changed in
\* place and the dict itself is put.
FinishObj(t, out) ==
    /\ stack[t] # << >>
    /\ LET frame == Last(stack[t])
       IN /\ heap' = [heap EXCEPT ![frame.obj] = Finalize(RecordOutcome(@, out), clock)]
          /\ obj_queue' = EmitEnd(obj_queue, [obj |-> frame.obj, at |-> "end"], out)
          /\ ctx_span_id' = CtxReset(ctx_span_id, t, frame.token)
          /\ stack' = [stack EXCEPT ![t] = Front(@)]
          /\ clock' = clock + 1
    /\ UNCHANGED << ctx_trace_id, span_queue, minted, observed, owner, joined,
                    transmitted, taken, workers, sent, localVars, collectorVars >>

\* Lines 23-28: the worker takes the oldest item and posts it; requests
\* encodes the dict the item refers to as it is at that moment.  The entry
\* notes whether the call of the span had ended by then.
TransmitObj ==
    /\ Len(transmitted) < Len(obj_queue)
    /\ LET item == obj_queue[QueueGet(Ascending(DOMAIN obj_queue \ DOMAIN transmitted))]
           payload == heap[item.obj]
       IN transmitted' = Append(transmitted,
              [ at |-> item.at, payload |-> payload,
                ended |-> \E k \in DOMAIN obj_queue :
                             /\ obj_queue[k].at = "end"
                             /\ heap[obj_queue[k].obj].span_id = payload.span_id ])
    /\ UNCHANGED << heap, obj_queue, taken, workers, sent, tracerVars, localVars,
                    collectorVars >>

NextObjects ==
    \/ \E t \in Tasks, mode \in Modes, name \in Names : EnterObj(t, mode, name)
    \/ \E t \in Tasks, out \in DeliveryOutcomes : FinishObj(t, out)
    \/ TransmitObj

SpecObjects == Init /\ [][NextObjects]_vars

\* C31: the RUNNING record as the worker posts it has status RUNNING and no
\* end_time, duration, outputs or error_message, also when the unit has ended
\* and the span dict it was copied from has been finalized.
C31_BeaconIsSnapshot ==
    \A k \in DOMAIN transmitted :
        transmitted[k].at = "start" =>
            /\ transmitted[k].payload.status = "RUNNING"
            /\ ~HasKey(transmitted[k].payload, "end_time")
            /\ ~HasKey(transmitted[k].payload, "duration")
            /\ ~HasKey(transmitted[k].payload, "outputs")
            /\ ~HasKey(transmitted[k].payload, "error_message")

\* The worker posted the RUNNING record of a call that had already ended, and
\* then its finalized record.
C31_Witness ==
    \E k \in DOMAIN transmitted :
        /\ transmitted[k].at = "start"
        /\ transmitted[k].ended
        /\ \E j \in DOMAIN transmitted :
              /\ j > k
              /\ transmitted[j].at = "end"
              /\ transmitted[j].payload.span_id = transmitted[k].payload.span_id
              /\ transmitted[j].payload.status = "FAILURE"

====
